---- MODULE Spec2Model ----
(***************************************************************************)
(* State-machine model of contracts/BaseRegistry.sol: a name registry with *)
(* fee-gated registration, owner-gated update and transfer, an admin       *)
(* (Ownable), an emergency pause (Pausable) and a re-entry guard           *)
(* (ReentrancyGuard) around the two functions that send value.             *)
(*                                                                         *)
(* One action per external function.  register and withdraw hand control   *)
(* to the recipient of the value they send; that external call is a state  *)
(* of its own (call.status = "pending") in which a recipient that is a     *)
(* contract may call back into the registry before it accepts or rejects   *)
(* the value.  A rejected transfer reverts the whole transaction to the    *)
(* state saved at its entry.                                               *)
(*                                                                         *)
(* Scope.  Every external function of the deployed contract is an action:  *)
(* the contract's own, and the two it inherits from OpenZeppelin's Ownable  *)
(* (transferOwnership, renounceOwnership), which change the admin.  While a *)
(* value transfer is pending the recipient's code runs with all gas and may *)
(* call any contract, so a call into the registry made during the transfer  *)
(* may come from any account, not only from the recipient.                  *)
(***************************************************************************)
EXTENDS Integers, Sequences, FiniteSets, TLC

\* ---- bounds of the model ------------------------------------------------
MaxTime == 2
MaxFee == 1
MaxEvents == 2
MaxHistory == 3
MaxDeposited == 1
MaxNested == 1

\* ---- program constants --------------------------------------------------
MAX_NAME_LENGTH == 32
MAX_DATA_LENGTH == 256

\* ---- input domains ------------------------------------------------------
Zero == "0x0"
Deployer == "deployer"
Accounts == {"deployer", "user1"}
\* any account may have code: it may then reject value sent to it, and call
\* back into the registry while it receives it
Contracts == Accounts
Addresses == Accounts \cup {Zero}

Name32 == "aaaaaaaaaaaaaaaaaaaaaaaaaaaaaaaa"
Name33 == "aaaaaaaaaaaaaaaaaaaaaaaaaaaaaaaaa"
Data256 == "xxxxxxxxxxxxxxxxxxxxxxxxxxxxxxxxxxxxxxxxxxxxxxxxxxxxxxxxxxxxxxxxxxxxxxxxxxxxxxxxxxxxxxxxxxxxxxxxxxxxxxxxxxxxxxxxxxxxxxxxxxxxxxxxxxxxxxxxxxxxxxxxxxxxxxxxxxxxxxxxxxxxxxxxxxxxxxxxxxxxxxxxxxxxxxxxxxxxxxxxxxxxxxxxxxxxxxxxxxxxxxxxxxxxxxxxxxxxxxxxxxxxxxxxxxxxxxxx"
Data257 == "xxxxxxxxxxxxxxxxxxxxxxxxxxxxxxxxxxxxxxxxxxxxxxxxxxxxxxxxxxxxxxxxxxxxxxxxxxxxxxxxxxxxxxxxxxxxxxxxxxxxxxxxxxxxxxxxxxxxxxxxxxxxxxxxxxxxxxxxxxxxxxxxxxxxxxxxxxxxxxxxxxxxxxxxxxxxxxxxxxxxxxxxxxxxxxxxxxxxxxxxxxxxxxxxxxxxxxxxxxxxxxxxxxxxxxxxxxxxxxxxxxxxxxxxxxxxxxxxx"
Names == {"", "a", Name32, Name33}
Datas == {"", Data256, Data257}
Fees == 0..MaxFee
Payments == 0..(MaxFee + 1)
DepositAmounts == 1..MaxDeposited

NOT_ENTERED == "NOT_ENTERED"
ENTERED == "ENTERED"

VARIABLES
    registry,          \* _registry: name -> Record
    ownedNames,        \* _ownedNames: address -> sequence of names
    registrationFee,   \* registrationFee
    paused,            \* Pausable._paused
    owner,             \* Ownable._owner (the admin)
    status,            \* ReentrancyGuard._status
    balance,           \* address(this).balance
    events,            \* the contract's event log
    now,               \* block.timestamp
    call,              \* the current or most recent top-level call and its outcome
    inner,             \* the most recent call made from inside a pending value transfer
    nestedCount,       \* calls made so far from inside the pending value transfer
    saved,             \* <<state at entry of the transaction that sends value>>, or <<>>
    feesReceived,      \* ghost: sum of the fees kept by successful registrations
    deposited,         \* ghost: sum of the direct deposits
    withdrawn,         \* ghost: sum of the amounts paid out by withdraw
    registered,        \* ghost: names of the successful register calls
    pre                \* ghost: the contract state before the latest step

core == <<registry, ownedNames, registrationFee, paused, owner, status, balance,
          events, feesReceived, deposited, withdrawn, registered>>
vars == <<registry, ownedNames, registrationFee, paused, owner, status, balance,
          events, now, call, inner, nestedCount, saved,
          feesReceived, deposited, withdrawn, registered, pre>>

\* ---- records, events, call reports ---------------------------------------
ZeroRecord == [owner |-> Zero, data |-> "", createdAt |-> 0, updatedAt |-> 0]

Event(type, name, a1, a2, data, n1, n2) ==
    [type |-> type, name |-> name, a1 |-> a1, a2 |-> a2, data |-> data,
     n1 |-> n1, n2 |-> n2]
Registered(name, o, data, ts) == Event("Registered", name, o, Zero, data, ts, 0)
\* Updated not carrying the data stored
Updated_NoData(name, o, data, ts) == Event("Updated", name, o, Zero, "", ts, 0)
Updated(name, o, data, ts) == Event("Updated", name, o, Zero, data, ts, 0)
Transferred(name, from, to, ts) == Event("Transferred", name, from, to, "", ts, 0)
\* FeeUpdated reporting the new fee twice
FeeUpdated_NewOnly(oldFee, newFee) ==
    Event("FeeUpdated", "", Zero, Zero, "", newFee, newFee)
FeeUpdated(oldFee, newFee) == Event("FeeUpdated", "", Zero, Zero, "", oldFee, newFee)
FundsWithdrawn(to, amount) == Event("FundsWithdrawn", "", to, Zero, "", amount, 0)
PausedEv(account) == Event("Paused", "", account, Zero, "", 0, 0)
UnpausedEv(account) == Event("Unpaused", "", account, Zero, "", 0, 0)
OwnershipTransferred(prev, new) ==
    Event("OwnershipTransferred", "", prev, new, "", 0, 0)

\* what a caller observes of a call: the call as made and its outcome
Report(op, caller, name, data, addr, value, sent, st, err) ==
    [op |-> op, caller |-> caller, name |-> name, data |-> data, addr |-> addr,
     value |-> value, sent |-> sent, status |-> st, err |-> err]
NoCall == Report("none", Zero, "", "", Zero, 0, 0, "none", "")
\* a reverted call: who called what on which name, and the error it gave
Failed(op, caller, name, err) ==
    Report(op, caller, name, "", Zero, 0, 0, "fail", err)

Snapshot ==
    [registry |-> registry, ownedNames |-> ownedNames,
     registrationFee |-> registrationFee, paused |-> paused, owner |-> owner,
     status |-> status, balance |-> balance, events |-> events,
     feesReceived |-> feesReceived, deposited |-> deposited,
     withdrawn |-> withdrawn, registered |-> registered]

\* ---- queries -------------------------------------------------------------
getRecord(name) ==
    <<registry[name].owner, registry[name].data,
      registry[name].createdAt, registry[name].updatedAt>>
isAvailable(name) == registry[name].owner = Zero
getOwnedNames(a) == ownedNames[a]

\* ---- who may call, and where the outcome is reported ----------------------
Idle == call.status = "none"
Pending == call.status = "pending"
Returned == call.status \in {"ok", "fail"}

\* a call arrives either between transactions, or while a recipient that has
\* code is receiving value from the registry: that code has all the gas and
\* may call the registry itself or have any other contract call it, so the
\* caller is any account
CanCall(c) ==
    \/ Idle
    \/ Pending /\ call.addr \in Contracts /\ nestedCount < MaxNested

Deliver(r) ==
    IF Pending
    THEN inner' = r /\ nestedCount' = nestedCount + 1 /\ UNCHANGED <<call, saved>>
    ELSE call' = r /\ UNCHANGED <<inner, nestedCount, saved>>

\* a reverted call: nothing but the report changes
Revert(r) == Deliver(r) /\ UNCHANGED <<core, now>>

\* room in the event log for one more event
Room == Len(events) <= MaxEvents
\* pause and unpause may take the log one entry further, so that the registry
\* can be paused after any history the log has room for
RoomToToggle == Len(events) <= MaxEvents + 1
\* update and transfer may take the log to MaxHistory events after the
\* constructor's while the log is the history of the one name they act on,
\* so that a name can be registered, handed over, and then updated by its
\* new owner or handed back
RoomForHistory(name) ==
    \/ Room
    \/ /\ Len(events) <= MaxHistory
       /\ \A i \in 2..Len(events) : events[i].name = name

\* ---- construction --------------------------------------------------------
\* a construction that leaves the registry paused
Init_StartsPaused ==
    /\ registry = [n \in Names |-> ZeroRecord]
    /\ ownedNames = [a \in Addresses |-> <<>>]
    /\ registrationFee \in Fees
    /\ paused = TRUE
    /\ owner = Deployer
    /\ status = NOT_ENTERED
    /\ balance = 0
    /\ events = <<OwnershipTransferred(Zero, Deployer)>>
    /\ now = 1
    /\ call = NoCall
    /\ inner = NoCall
    /\ nestedCount = 0
    /\ saved = <<>>
    /\ feesReceived = 0
    /\ deposited = 0
    /\ withdrawn = 0
    /\ registered = {}
    /\ pre = Snapshot

Init ==
    /\ registry = [n \in Names |-> ZeroRecord]
    /\ ownedNames = [a \in Addresses |-> <<>>]
    /\ registrationFee \in Fees
    /\ paused = FALSE
    /\ owner = Deployer
    /\ status = NOT_ENTERED
    /\ balance = 0
    /\ events = <<OwnershipTransferred(Zero, Deployer)>>
    /\ now = 1
    /\ call = NoCall
    /\ inner = NoCall
    /\ nestedCount = 0
    /\ saved = <<>>
    /\ feesReceived = 0
    /\ deposited = 0
    /\ withdrawn = 0
    /\ registered = {}
    /\ pre = Snapshot

\* ---- _ownedNames[a].push(name) ---------------------------------------------
\* a push that puts the name in front
Push_Front(list, name) == <<name>> \o list

\* a push that appends nothing
Push_Nothing(list, name) == list

Push(list, name) == Append(list, name)

\* ---- register ------------------------------------------------------------
\* the first failing check, in the order the modifiers and the requires run
\* register without its conflict check
RegisterError_NoConflict(name, data, value) ==
    IF paused THEN "EnforcedPause"
    ELSE IF status = ENTERED THEN "ReentrancyGuardReentrantCall"
    ELSE IF ~(Len(name) > 0) THEN "Name cannot be empty"
    ELSE IF ~(Len(name) <= MAX_NAME_LENGTH) THEN "Name too long"
    ELSE IF ~(Len(data) <= MAX_DATA_LENGTH) THEN "Data too long"
    ELSE IF ~(value >= registrationFee) THEN "Insufficient fee"
    ELSE ""

\* register checking the pause flag after its requires
RegisterError_PauseLast(name, data, value) ==
    IF status = ENTERED THEN "ReentrancyGuardReentrantCall"
    ELSE IF ~(Len(name) > 0) THEN "Name cannot be empty"
    ELSE IF ~(Len(name) <= MAX_NAME_LENGTH) THEN "Name too long"
    ELSE IF ~(Len(data) <= MAX_DATA_LENGTH) THEN "Data too long"
    ELSE IF ~(registry[name].owner = Zero) THEN "Name already registered"
    ELSE IF ~(value >= registrationFee) THEN "Insufficient fee"
    ELSE IF paused THEN "EnforcedPause"
    ELSE ""

\* register without whenNotPaused
RegisterError_NoPauseCheck(name, data, value) ==
    IF status = ENTERED THEN "ReentrancyGuardReentrantCall"
    ELSE IF ~(Len(name) > 0) THEN "Name cannot be empty"
    ELSE IF ~(Len(name) <= MAX_NAME_LENGTH) THEN "Name too long"
    ELSE IF ~(Len(data) <= MAX_DATA_LENGTH) THEN "Data too long"
    ELSE IF ~(registry[name].owner = Zero) THEN "Name already registered"
    ELSE IF ~(value >= registrationFee) THEN "Insufficient fee"
    ELSE ""

RegisterError(name, data, value) ==
    IF paused THEN "EnforcedPause"
    ELSE IF status = ENTERED THEN "ReentrancyGuardReentrantCall"
    ELSE IF ~(Len(name) > 0) THEN "Name cannot be empty"
    ELSE IF ~(Len(name) <= MAX_NAME_LENGTH) THEN "Name too long"
    ELSE IF ~(Len(data) <= MAX_DATA_LENGTH) THEN "Data too long"
    ELSE IF ~(registry[name].owner = Zero) THEN "Name already registered"
    ELSE IF ~(value >= registrationFee) THEN "Insufficient fee"
    ELSE ""

\* register keeping the excess payment
Refund_None(value) == 0

\* register sending the whole payment back
Refund_All(value) == IF value > registrationFee THEN value ELSE 0

\* the excess payment sent back to the caller
Refund(value) ==
    IF value > registrationFee THEN value - registrationFee ELSE 0

\* register leaving createdAt unset
RegisterRecord_NoCreatedAt(c, data) ==
    [owner |-> c, data |-> data, createdAt |-> 0, updatedAt |-> now]

\* register leaving updatedAt unset
RegisterRecord_NoUpdatedAt(c, data) ==
    [owner |-> c, data |-> data, createdAt |-> now, updatedAt |-> 0]

RegisterRecord(c, data) ==
    [owner |-> c, data |-> data, createdAt |-> now, updatedAt |-> now]

register(c, name, data, value) ==
    /\ CanCall(c)
    /\ pre' = Snapshot
    /\ LET err == RegisterError(name, data, value) IN
       IF err # ""
       THEN Revert(Failed("register", c, name, err))
       ELSE /\ Room
            /\ registry' = [registry EXCEPT ![name] = RegisterRecord(c, data)]
            /\ ownedNames' = [ownedNames EXCEPT ![c] = Push(@, name)]
            /\ events' = Append(events, Registered(name, c, data, now))
            /\ registered' = registered \cup {name}
            /\ balance' = balance + value - Refund(value)
            /\ feesReceived' = feesReceived + registrationFee
            /\ UNCHANGED <<registrationFee, paused, owner, deposited, withdrawn, now>>
            /\ IF Refund(value) > 0 /\ c \in Contracts /\ Idle
               THEN \* the refund hands control to the caller
                    /\ status' = ENTERED
                    /\ call' = Report("register", c, name, data, c, value,
                                      Refund(value), "pending", "")
                    /\ saved' = <<Snapshot>>
                    /\ inner' = NoCall
                    /\ nestedCount' = 0
               ELSE /\ status' = status
                    /\ Deliver(Report("register", c, name, data, c, value,
                                      Refund(value), "ok", ""))

\* ---- update --------------------------------------------------------------
\* update without its owner check
UpdateError_NoOwnerCheck(c, name, data) ==
    IF paused THEN "EnforcedPause"
    ELSE IF ~(Len(data) <= MAX_DATA_LENGTH) THEN "Data too long"
    ELSE ""

\* update without whenNotPaused
UpdateError_NoPauseCheck(c, name, data) ==
    IF ~(registry[name].owner = c) THEN "Not the owner"
    ELSE IF ~(Len(data) <= MAX_DATA_LENGTH) THEN "Data too long"
    ELSE ""

\* update without its data length check
UpdateError_NoDataCheck(c, name, data) ==
    IF paused THEN "EnforcedPause"
    ELSE IF ~(registry[name].owner = c) THEN "Not the owner"
    ELSE ""

\* update letting every caller through on a name that has no owner
UpdateError_UnownedPasses(c, name, data) ==
    IF paused THEN "EnforcedPause"
    ELSE IF ~(registry[name].owner \in {c, Zero}) THEN "Not the owner"
    ELSE IF ~(Len(data) <= MAX_DATA_LENGTH) THEN "Data too long"
    ELSE ""

UpdateError(c, name, data) ==
    IF paused THEN "EnforcedPause"
    ELSE IF ~(registry[name].owner = c) THEN "Not the owner"
    ELSE IF ~(Len(data) <= MAX_DATA_LENGTH) THEN "Data too long"
    ELSE ""

\* update stamping the time without storing the data
UpdateRecord_KeepsData(r, data) == [r EXCEPT !.updatedAt = now]

\* update storing the data without stamping the time
UpdateRecord_NoStamp(r, data) == [r EXCEPT !.data = data]

\* update stamping createdAt as well
UpdateRecord_TouchesCreatedAt(r, data) ==
    [r EXCEPT !.data = data, !.createdAt = now, !.updatedAt = now]

UpdateRecord(r, data) == [r EXCEPT !.data = data, !.updatedAt = now]

update(c, name, data) ==
    /\ CanCall(c)
    /\ pre' = Snapshot
    /\ LET err == UpdateError(c, name, data) IN
       IF err # ""
       THEN Revert(Failed("update", c, name, err))
       ELSE /\ RoomForHistory(name)
            /\ registry' = [registry EXCEPT ![name] = UpdateRecord(@, data)]
            /\ events' = Append(events, Updated(name, c, data, now))
            /\ UNCHANGED <<ownedNames, registrationFee, paused, owner, status,
                           balance, feesReceived, deposited, withdrawn,
                           registered, now>>
            /\ Deliver(Report("update", c, name, data, Zero, 0, 0, "ok", ""))

\* ---- transfer ------------------------------------------------------------
\* transfer without its zero-address check
TransferError_NoZeroCheck(c, name, newOwner) ==
    IF paused THEN "EnforcedPause"
    ELSE IF ~(registry[name].owner = c) THEN "Not the owner"
    ELSE IF ~(newOwner # c) THEN "Already the owner"
    ELSE ""

\* transfer without its owner check
TransferError_NoOwnerCheck(c, name, newOwner) ==
    IF paused THEN "EnforcedPause"
    ELSE IF ~(newOwner # Zero) THEN "Invalid new owner"
    ELSE IF ~(newOwner # c) THEN "Already the owner"
    ELSE ""

\* transfer without its check against a transfer to oneself
TransferError_NoSelfCheck(c, name, newOwner) ==
    IF paused THEN "EnforcedPause"
    ELSE IF ~(registry[name].owner = c) THEN "Not the owner"
    ELSE IF ~(newOwner # Zero) THEN "Invalid new owner"
    ELSE ""

\* transfer checking the pause after its own requirements
TransferError_PauseLast(c, name, newOwner) ==
    IF ~(registry[name].owner = c) THEN "Not the owner"
    ELSE IF ~(newOwner # Zero) THEN "Invalid new owner"
    ELSE IF ~(newOwner # c) THEN "Already the owner"
    ELSE IF paused THEN "EnforcedPause"
    ELSE ""

TransferError(c, name, newOwner) ==
    IF paused THEN "EnforcedPause"
    ELSE IF ~(registry[name].owner = c) THEN "Not the owner"
    ELSE IF ~(newOwner # Zero) THEN "Invalid new owner"
    ELSE IF ~(newOwner # c) THEN "Already the owner"
    ELSE ""

\* transfer changing the owner without stamping the time
TransferRecord_KeepsUpdatedAt(r, newOwner) == [r EXCEPT !.owner = newOwner]

TransferRecord(r, newOwner) == [r EXCEPT !.owner = newOwner, !.updatedAt = now]

transfer(c, name, newOwner) ==
    /\ CanCall(c)
    /\ pre' = Snapshot
    /\ LET err == TransferError(c, name, newOwner) IN
       IF err # ""
       THEN Revert(Failed("transfer", c, name, err))
       ELSE /\ RoomForHistory(name)
            /\ registry' = [registry EXCEPT ![name] = TransferRecord(@, newOwner)]
            /\ ownedNames' = [ownedNames EXCEPT ![newOwner] = Push(@, name)]
            /\ events' = Append(events, Transferred(name, c, newOwner, now))
            /\ UNCHANGED <<registrationFee, paused, owner, status, balance,
                           feesReceived, deposited, withdrawn, registered, now>>
            /\ Deliver(Report("transfer", c, name, "", newOwner, 0, 0, "ok", ""))

\* ---- administration ------------------------------------------------------
\* onlyOwner letting every caller through
OnlyOwnerError_Anyone(c) == ""

OnlyOwnerError(c) == IF c # owner THEN "OwnableUnauthorizedAccount" ELSE ""

setRegistrationFee(c, newFee) ==
    /\ CanCall(c)
    /\ pre' = Snapshot
    /\ LET err == OnlyOwnerError(c) IN
       IF err # ""
       THEN Revert(Failed("setRegistrationFee", c, "", err))
       ELSE /\ Room
            /\ registrationFee' = newFee
            /\ events' = Append(events, FeeUpdated(registrationFee, newFee))
            /\ UNCHANGED <<registry, ownedNames, paused, owner, status, balance,
                           feesReceived, deposited, withdrawn, registered, now>>
            /\ Deliver(Report("setRegistrationFee", c, "", "", Zero, newFee, 0,
                              "ok", ""))

\* pause without the check that the registry is not paused yet
PauseError_NoPausedCheck(c) ==
    IF c # owner THEN "OwnableUnauthorizedAccount" ELSE ""

PauseError(c) ==
    IF c # owner THEN "OwnableUnauthorizedAccount"
    ELSE IF paused THEN "EnforcedPause"
    ELSE ""

pause(c) ==
    /\ CanCall(c)
    /\ pre' = Snapshot
    /\ LET err == PauseError(c) IN
       IF err # ""
       THEN Revert(Failed("pause", c, "", err))
       ELSE /\ RoomToToggle
            /\ paused' = TRUE
            /\ events' = Append(events, PausedEv(c))
            /\ UNCHANGED <<registry, ownedNames, registrationFee, owner, status,
                           balance, feesReceived, deposited, withdrawn,
                           registered, now>>
            /\ Deliver(Report("pause", c, "", "", Zero, 0, 0, "ok", ""))

\* unpause without onlyOwner
UnpauseError_Anyone(c) ==
    IF ~paused THEN "ExpectedPause"
    ELSE ""

UnpauseError(c) ==
    IF c # owner THEN "OwnableUnauthorizedAccount"
    ELSE IF ~paused THEN "ExpectedPause"
    ELSE ""

unpause(c) ==
    /\ CanCall(c)
    /\ pre' = Snapshot
    /\ LET err == UnpauseError(c) IN
       IF err # ""
       THEN Revert(Failed("unpause", c, "", err))
       ELSE /\ RoomToToggle
            /\ paused' = FALSE
            /\ events' = Append(events, UnpausedEv(c))
            /\ UNCHANGED <<registry, ownedNames, registrationFee, owner, status,
                           balance, feesReceived, deposited, withdrawn,
                           registered, now>>
            /\ Deliver(Report("unpause", c, "", "", Zero, 0, 0, "ok", ""))

\* ---- Ownable: handing the administration over -----------------------------
\* transferOwnership without onlyOwner
TransferOwnershipError_Anyone(c, newOwner) ==
    IF newOwner = Zero THEN "OwnableInvalidOwner"
    ELSE ""

TransferOwnershipError(c, newOwner) ==
    IF c # owner THEN "OwnableUnauthorizedAccount"
    ELSE IF newOwner = Zero THEN "OwnableInvalidOwner"
    ELSE ""

transferOwnership(c, newOwner) ==
    /\ CanCall(c)
    /\ pre' = Snapshot
    /\ LET err == TransferOwnershipError(c, newOwner) IN
       IF err # ""
       THEN Revert(Failed("transferOwnership", c, "", err))
       ELSE /\ Room
            /\ owner' = newOwner
            /\ events' = Append(events, OwnershipTransferred(owner, newOwner))
            /\ UNCHANGED <<registry, ownedNames, registrationFee, paused, status,
                           balance, feesReceived, deposited, withdrawn,
                           registered, now>>
            /\ Deliver(Report("transferOwnership", c, "", "", newOwner, 0, 0,
                              "ok", ""))

\* renounceOwnership leaves the registry without an admin
renounceOwnership(c) ==
    /\ CanCall(c)
    /\ pre' = Snapshot
    /\ LET err == OnlyOwnerError(c) IN
       IF err # ""
       THEN Revert(Failed("renounceOwnership", c, "", err))
       ELSE /\ Room
            /\ owner' = Zero
            /\ events' = Append(events, OwnershipTransferred(owner, Zero))
            /\ UNCHANGED <<registry, ownedNames, registrationFee, paused, status,
                           balance, feesReceived, deposited, withdrawn,
                           registered, now>>
            /\ Deliver(Report("renounceOwnership", c, "", "", Zero, 0, 0,
                              "ok", ""))

\* withdraw gated by the pause flag
WithdrawError_WhenNotPaused(c, to) ==
    IF c # owner THEN "OwnableUnauthorizedAccount"
    ELSE IF paused THEN "EnforcedPause"
    ELSE IF status = ENTERED THEN "ReentrancyGuardReentrantCall"
    ELSE IF ~(to # Zero) THEN "Invalid address"
    ELSE IF ~(balance > 0) THEN "No funds to withdraw"
    ELSE ""

\* withdraw without its check that there are funds
WithdrawError_NoFundsCheck(c, to) ==
    IF c # owner THEN "OwnableUnauthorizedAccount"
    ELSE IF status = ENTERED THEN "ReentrancyGuardReentrantCall"
    ELSE IF ~(to # Zero) THEN "Invalid address"
    ELSE ""

\* withdraw without nonReentrant
WithdrawError_NoGuard(c, to) ==
    IF c # owner THEN "OwnableUnauthorizedAccount"
    ELSE IF ~(to # Zero) THEN "Invalid address"
    ELSE IF ~(balance > 0) THEN "No funds to withdraw"
    ELSE ""

WithdrawError(c, to) ==
    IF c # owner THEN "OwnableUnauthorizedAccount"
    ELSE IF status = ENTERED THEN "ReentrancyGuardReentrantCall"
    ELSE IF ~(to # Zero) THEN "Invalid address"
    ELSE IF ~(balance > 0) THEN "No funds to withdraw"
    ELSE ""

\* withdraw keeping one unit back
WithdrawAmount_AllButOne == balance - 1

\* the amount withdraw pays out: the whole balance
WithdrawAmount == balance

withdraw(c, to) ==
    /\ CanCall(c)
    /\ pre' = Snapshot
    /\ LET err == WithdrawError(c, to)
           amount == WithdrawAmount
       IN
       IF err # ""
       THEN Revert(Failed("withdraw", c, "", err))
       ELSE /\ Room
            /\ balance' = balance - amount
            /\ withdrawn' = withdrawn + amount
            /\ UNCHANGED <<registry, ownedNames, registrationFee, paused, owner,
                           feesReceived, deposited, registered, now>>
            /\ IF to \in Contracts /\ Idle
               THEN \* the payout hands control to the recipient
                    /\ status' = ENTERED
                    /\ events' = events
                    /\ call' = Report("withdraw", c, "", "", to, 0, amount,
                                      "pending", "")
                    /\ saved' = <<Snapshot>>
                    /\ inner' = NoCall
                    /\ nestedCount' = 0
               ELSE /\ status' = status
                    /\ events' = Append(events, FundsWithdrawn(to, amount))
                    /\ Deliver(Report("withdraw", c, "", "", to, 0, amount,
                                      "ok", ""))

\* ---- receive: a plain value transfer to the registry ----------------------
\* a receive that refuses deposits while the registry is paused
receive_WhenNotPaused(c, value) ==
    /\ CanCall(c)
    /\ pre' = Snapshot
    /\ deposited + value <= MaxDeposited
    /\ IF paused
       THEN Revert(Failed("receive", c, "", "EnforcedPause"))
       ELSE /\ balance' = balance + value
            /\ deposited' = deposited + value
            /\ UNCHANGED <<registry, ownedNames, registrationFee, paused, owner,
                           status, events, feesReceived, withdrawn, registered,
                           now>>
            /\ Deliver(Report("receive", c, "", "", Zero, value, 0, "ok", ""))

receive(c, value) ==
    /\ CanCall(c)
    /\ pre' = Snapshot
    /\ deposited + value <= MaxDeposited
    /\ balance' = balance + value
    /\ deposited' = deposited + value
    /\ UNCHANGED <<registry, ownedNames, registrationFee, paused, owner, status,
                   events, feesReceived, withdrawn, registered, now>>
    /\ Deliver(Report("receive", c, "", "", Zero, value, 0, "ok", ""))

\* ---- the end of the external call of register (refund) or withdraw --------
\* the recipient accepts the value: the caller's require(success) passes
callSucceeds ==
    /\ Pending
    /\ pre' = Snapshot
    /\ status' = NOT_ENTERED
    /\ events' = IF call.op = "withdraw"
                 THEN Append(events, FundsWithdrawn(call.addr, call.sent))
                 ELSE events
    /\ call' = [call EXCEPT !.status = "ok"]
    /\ inner' = NoCall
    /\ nestedCount' = 0
    /\ saved' = saved
    /\ UNCHANGED <<registry, ownedNames, registrationFee, paused, owner, balance,
                   feesReceived, deposited, withdrawn, registered, now>>

\* a failed value transfer that is not required to succeed: nothing is undone
Restored_Nothing(s) == Snapshot

\* a revert that leaves the event log as it is
Restored_KeepsEvents(s) == [s EXCEPT !.events = events]

\* a revert that leaves the re-entry guard held
Restored_KeepsGuard(s) == [s EXCEPT !.status = ENTERED]

\* the state a reverted transaction leaves: the one it started from
Restored(s) == s

\* the recipient rejects the value: require(success) fails, the transaction
\* and every call made inside it are undone
callFails ==
    /\ Pending
    /\ pre' = Snapshot
    /\ call.addr \in Contracts
    /\ LET s == Restored(saved[1]) IN
       /\ registry' = s.registry
       /\ ownedNames' = s.ownedNames
       /\ registrationFee' = s.registrationFee
       /\ paused' = s.paused
       /\ owner' = s.owner
       /\ status' = s.status
       /\ balance' = s.balance
       /\ events' = s.events
       /\ feesReceived' = s.feesReceived
       /\ deposited' = s.deposited
       /\ withdrawn' = s.withdrawn
       /\ registered' = s.registered
    /\ call' = [call EXCEPT !.status = "fail",
                             !.err = IF call.op = "register"
                                     THEN "Refund failed"
                                     ELSE "Withdrawal failed"]
    /\ inner' = NoCall
    /\ nestedCount' = 0
    /\ saved' = saved
    /\ now' = now

\* ---- the call returns to its caller: the transaction is over --------------
returns ==
    /\ Returned
    /\ call' = NoCall
    /\ saved' = <<>>
    /\ pre' = Snapshot
    /\ UNCHANGED <<core, now, inner, nestedCount>>

\* ---- the host clock -------------------------------------------------------
Tick ==
    /\ Idle
    /\ now < MaxTime
    /\ now' = now + 1
    /\ pre' = Snapshot
    /\ UNCHANGED <<core, call, inner, nestedCount, saved>>

Next ==
    \/ \E c \in Accounts, name \in Names, data \in Datas, value \in Payments :
           register(c, name, data, value)
    \/ \E c \in Accounts, name \in Names, data \in Datas : update(c, name, data)
    \/ \E c \in Accounts, name \in Names, newOwner \in Addresses :
           transfer(c, name, newOwner)
    \/ \E c \in Accounts, newFee \in Fees : setRegistrationFee(c, newFee)
    \/ \E c \in Accounts : pause(c)
    \/ \E c \in Accounts : unpause(c)
    \/ \E c \in Accounts, to \in Addresses : withdraw(c, to)
    \/ \E c \in Accounts, newOwner \in Addresses : transferOwnership(c, newOwner)
    \/ \E c \in Accounts : renounceOwnership(c)
    \/ \E c \in Accounts, value \in DepositAmounts : receive(c, value)
    \/ callSucceeds
    \/ callFails
    \/ returns
    \/ Tick

Spec == Init /\ [][Next]_vars

\* =========================================================================
\* Properties
\* =========================================================================

\* ---- the latest step ------------------------------------------------------
\* pre holds the contract state before the latest step, so what a step does
\* is read off the state it leaves: pre is the state before, the variables
\* are the state after, and the reports say which step it was.

\* the latest step was a call made from inside a pending value transfer
Nested == Pending /\ nestedCount > 0
\* the latest step was a call into the registry: a transaction, or a call
\* made from inside a pending value transfer
IsCall == Pending \/ (Returned /\ saved = <<>>)
\* the latest step was a call made as a transaction of its own
TopLevel == IsCall /\ ~Nested
\* the report of the call the latest step made
made == IF Nested THEN inner ELSE call
\* the call the latest step made passed every check
Passes == made.status \in {"ok", "pending"}
\* the latest step ended a pending value transfer in failure: the transaction
\* reverted
TransferFails == call.status = "fail" /\ saved # <<>>
\* the latest step ended a pending value transfer in success
TransferSucceeds == call.status = "ok" /\ saved # <<>>
\* the latest step left the contract state as it was
Unchanged == Snapshot = pre

\* the answers of the queries in a contract state s
RecordIn(s, n) ==
    <<s.registry[n].owner, s.registry[n].data,
      s.registry[n].createdAt, s.registry[n].updatedAt>>
AvailableIn(s, n) == s.registry[n].owner = Zero

\* names registered by a call that has finished (the registration that is
\* waiting for its refund to be accepted is not yet a success)
Settled == registered \ (IF Pending /\ call.op = "register" THEN {call.name} ELSE {})
\* the same, before the latest step
SettledBefore ==
    pre.registered \ (IF Nested /\ call.op = "register" THEN {call.name} ELSE {})

EventsOf(type) == {i \in DOMAIN events : events[i].type = type}

\* ---- C1 ------------------------------------------------------------------
\* C1 as stated: once a name is registered, every later register of it, by
\* any caller with any data and payment, fails with "Name already registered"
\* and leaves the record unchanged.
C1_Original ==
    (IsCall /\ made.op = "register" /\ made.name \in SettledBefore)
       => /\ made.status = "fail"
          /\ made.err = "Name already registered"
          /\ registry = pre.registry

\* the error a register of an already registered name gives in state s
C1_ConflictError(s, data) ==
    IF s.paused THEN "EnforcedPause"
    ELSE IF s.status = ENTERED THEN "ReentrancyGuardReentrantCall"
    ELSE IF Len(data) > MAX_DATA_LENGTH THEN "Data too long"
    ELSE "Name already registered"

\* C1 amended: once a name is registered, every later register of it, by any
\* caller with any data and payment, fails and leaves every record unchanged;
\* the error is "Name already registered" unless the registry is paused
\* (EnforcedPause), the call re-enters during a value transfer (the guard's
\* error) or the data is over 256 long ("Data too long"), which are checked
\* first.
C1_Uniqueness ==
    /\ \A n \in Settled, d \in Datas, v \in Payments :
           RegisterError(n, d, v) = C1_ConflictError(Snapshot, d)
    /\ (IsCall /\ made.op = "register" /\ made.name \in SettledBefore)
          => /\ made.status = "fail"
             /\ made.err \in {C1_ConflictError(pre, d) : d \in Datas}
             /\ Unchanged

\* a register of a registered name, by another caller, failed on the conflict
C1_Witness ==
    /\ call.op = "register"
    /\ call.status = "fail"
    /\ call.err = "Name already registered"
    /\ call.name \in registered
    /\ registry[call.name].owner # call.caller

\* ---- C2 ------------------------------------------------------------------
\* C2 as stated: update and transfer by a caller who is not the current owner
\* of the name (the admin and callers of unregistered names included) always
\* fail with "Not the owner" and leave the record unchanged.
C2_Original ==
    (IsCall /\ made.op \in {"update", "transfer"}
        /\ made.caller # pre.registry[made.name].owner)
       => /\ made.status = "fail"
          /\ made.err = "Not the owner"
          /\ registry = pre.registry

\* C2 amended: update and transfer by a caller who is not the current owner
\* of the name always fail and change nothing; the error is "Not the owner"
\* when the registry is not paused and EnforcedPause when it is.
C2_OwnershipGating ==
    (IsCall /\ made.op \in {"update", "transfer"}
        /\ made.caller # pre.registry[made.name].owner)
       => /\ made.status = "fail"
          /\ made.err = (IF pre.paused THEN "EnforcedPause" ELSE "Not the owner")
          /\ Unchanged

\* the admin, who does not own the registered name, was refused an update
C2_Witness ==
    /\ call.op = "update"
    /\ call.status = "fail"
    /\ call.err = "Not the owner"
    /\ call.caller = owner
    /\ registry[call.name].owner \notin {Zero, call.caller}

\* ---- C3 ------------------------------------------------------------------
\* while paused: register, update and transfer fail and change nothing
C3_MutationsFail ==
    (IsCall /\ made.op \in {"register", "update", "transfer"})
        => (made.status = "fail" /\ Unchanged)

\* from a paused state to a paused state the record queries keep their values
C3_RecordQueriesKeep ==
    /\ \A n \in Names : getRecord(n) = RecordIn(pre, n)
                        /\ isAvailable(n) = AvailableIn(pre, n)
    /\ \A a \in Addresses : getOwnedNames(a) = pre.ownedNames[a]

\* C3 as stated: in every paused state register, update and transfer fail for
\* every caller and input and change nothing, and getRecord, isAvailable,
\* getOwnedNames and registrationFee return the values they returned before
\* the pause.
C3_Original ==
    pre.paused => /\ C3_MutationsFail
                  /\ paused => /\ C3_RecordQueriesKeep
                               /\ registrationFee = pre.registrationFee

\* C3 amended: in every paused state register, update and transfer fail for
\* every caller and input and change nothing, and getRecord, isAvailable and
\* getOwnedNames return the values they returned before the pause;
\* registrationFee returns the current fee, which while paused changes only
\* by a successful setRegistrationFee of the admin (and back, when the
\* transaction that call was made in reverts).
C3_PauseGating ==
    pre.paused =>
        /\ C3_MutationsFail
        /\ paused =>
             /\ C3_RecordQueriesKeep
             /\ registrationFee # pre.registrationFee
                  => \/ /\ IsCall
                        /\ made.op = "setRegistrationFee"
                        /\ made.status = "ok"
                        /\ made.caller = pre.owner
                        /\ registrationFee = made.value
                     \/ /\ TransferFails
                        /\ registrationFee = saved[1].registrationFee

\* the owner of a registered name was refused an update because of the pause
C3_Witness ==
    /\ paused
    /\ call.op = "update"
    /\ call.status = "fail"
    /\ call.err = "EnforcedPause"
    /\ registry[call.name].owner = call.caller

\* ---- C4 ------------------------------------------------------------------
\* C4: in every reachable state a name is available iff no successful
\* register of it has occurred; so a registered name never becomes available
\* again, whatever update, transfer, pause, fee change, withdraw or deposit
\* follows.
C4_AvailabilityIsHistory ==
    \A n \in Names : isAvailable(n) <=> n \notin registered

\* a registered name was transferred, funds were withdrawn, and it is still
\* not available
C4_Witness ==
    \E i \in EventsOf("Transferred") :
        /\ ~isAvailable(events[i].name)
        /\ events[i].name \in registered
        /\ withdrawn > 0

\* ---- C5 ------------------------------------------------------------------
\* C5: in every reachable state the balance equals (the fees in force at the
\* successful registrations) + (direct deposits) - (amounts withdrawn) and is
\* never negative; and while the fee was never changed and nothing was
\* withdrawn, balance = N * fee + deposits for the N registrations made,
\* whatever was paid.
C5_BalanceAccounting ==
    /\ balance = feesReceived + deposited - withdrawn
    /\ balance >= 0
    /\ (EventsOf("FeeUpdated") = {} /\ withdrawn = 0)
          => balance = Cardinality(EventsOf("Registered")) * registrationFee
                       + deposited

\* fees were received from an overpaid registration, a deposit was made and
\* funds were withdrawn
C5_Witness ==
    /\ feesReceived > 0
    /\ deposited > 0
    /\ withdrawn > 0
    /\ Idle

\* ---- C6 ------------------------------------------------------------------
\* C6: a register that passes its checks with payment p sends exactly
\* p - registrationFee back to its caller in the same call, so the registry
\* gains exactly registrationFee; with p = registrationFee nothing is sent
\* and no external call is made; accepting the refund changes neither amount.
C6_ExactRefund ==
    /\ (IsCall /\ made.op = "register" /\ Passes)
          => /\ made.sent = made.value - pre.registrationFee
             /\ made.addr = made.caller
             /\ balance = pre.balance + pre.registrationFee
             /\ made.value = pre.registrationFee
                  => (made.sent = 0 /\ made.status = "ok")
    /\ (TransferSucceeds /\ call.op = "register")
          => /\ call.sent = call.value - saved[1].registrationFee
             /\ call.sent > 0
             /\ balance = pre.balance

\* a register paid more than the fee, its refund was accepted, and the
\* registry kept exactly the fee
C6_Witness ==
    /\ call.op = "register"
    /\ call.status = "ok"
    /\ call.value > registrationFee
    /\ call.sent = call.value - registrationFee
    /\ call.sent > 0
    /\ registrationFee > 0
    /\ balance = registrationFee

\* ---- C7 ------------------------------------------------------------------
\* C7: when the caller rejects the refund of a register that passed every
\* check, the register fails with "Refund failed" and nothing of it stays:
\* the name is available, it has no record, ownedNames of the caller, the
\* event log and the balance are what they were before the call.
C7_RefundFailureAtomic ==
    (TransferFails /\ call.op = "register")
       => /\ call.err = "Refund failed"
          /\ isAvailable(call.name)
          /\ registry[call.name] = ZeroRecord
          /\ registry = saved[1].registry
          /\ ownedNames = saved[1].ownedNames
          /\ events = saved[1].events
          /\ \A i \in DOMAIN events :
                 ~(events[i].type = "Registered" /\ events[i].name = call.name)
          /\ balance = saved[1].balance

\* a register failed on its refund, and its name is available
C7_Witness ==
    /\ call.op = "register"
    /\ call.status = "fail"
    /\ call.err = "Refund failed"
    /\ isAvailable(call.name)
    /\ \A i \in DOMAIN ownedNames[call.caller] :
           ownedNames[call.caller][i] # call.name

\* ---- C8 ------------------------------------------------------------------
\* C8: every failed call of register, update, transfer, setRegistrationFee,
\* pause, unpause or withdraw leaves records, ownedNames, fee, pause flag,
\* admin, balance and the event log as they were before the call: a call
\* that fails a check changes nothing, and one that fails at its value
\* transfer leaves the state the transaction started from.
C8_AllOrNothing ==
    /\ (IsCall /\ made.status = "fail") => Unchanged
    /\ TransferFails => Snapshot = saved[1]

\* a register was rejected because of the pause, and its name is available
C8_Witness ==
    /\ call.op = "register"
    /\ call.status = "fail"
    /\ call.err = "EnforcedPause"
    /\ Len(call.name) \in 1..MAX_NAME_LENGTH
    /\ isAvailable(call.name)

\* ---- C9 ------------------------------------------------------------------
\* the latest step was not the revert of a transaction
C9_NotARevert == ~TransferFails

\* C9: the clock never decreasing, every registered record has
\* createdAt <= updatedAt; createdAt is set at registration, equal to
\* updatedAt then, and no later update or transfer changes it; updatedAt
\* never decreases by an update or transfer.
C9_Timestamps ==
    /\ \A n \in Names : registry[n].owner # Zero
           => /\ registry[n].createdAt <= registry[n].updatedAt
              /\ registry[n].updatedAt <= now
    /\ C9_NotARevert => \A n \in Names :
          /\ pre.registry[n].owner # Zero
               => /\ registry[n].createdAt = pre.registry[n].createdAt
                  /\ registry[n].updatedAt >= pre.registry[n].updatedAt
          /\ (pre.registry[n].owner = Zero /\ registry[n].owner # Zero)
               => /\ registry[n].createdAt = now
                  /\ registry[n].updatedAt = now

\* a record was updated or transferred in a later block than it was created
C9_Witness ==
    \E n \in Names :
        /\ registry[n].owner # Zero
        /\ registry[n].createdAt >= 1
        /\ registry[n].updatedAt > registry[n].createdAt

\* ---- C10 -----------------------------------------------------------------
\* C10: a register(name, data) by c at time t that passes its checks makes
\* getRecord(name) = (c, data, t, t), appends name as the last element of
\* ownedNames[c], appends exactly one Registered(name, c, data, t) event and
\* changes no other record and no other account's ownedNames; accepting the
\* refund changes none of these.
C10_RegisterEffect ==
    /\ (IsCall /\ made.op = "register" /\ Passes)
          => LET c == made.caller
                 n == made.name
             IN /\ getRecord(n) = <<c, made.data, now, now>>
                /\ registry[n] = [owner |-> c, data |-> made.data,
                                  createdAt |-> now, updatedAt |-> now]
                /\ ownedNames[c] = Append(pre.ownedNames[c], n)
                /\ Len(ownedNames[c]) = Len(pre.ownedNames[c]) + 1
                /\ events = Append(pre.events, Registered(n, c, made.data, now))
                /\ \A m \in Names \ {n} : registry[m] = pre.registry[m]
                /\ \A a \in Addresses \ {c} : ownedNames[a] = pre.ownedNames[a]
    /\ (TransferSucceeds /\ call.op = "register")
          => /\ registry = pre.registry
             /\ ownedNames = pre.ownedNames
             /\ events = pre.events

\* the second registration of one caller succeeded: its record is
\* (caller, data, t, t) and its name is the last of the caller's two names
C10_Witness ==
    /\ call.op = "register"
    /\ call.status = "ok"
    /\ getRecord(call.name) = <<call.caller, call.data, now, now>>
    /\ Len(getOwnedNames(call.caller)) = 2
    /\ getOwnedNames(call.caller)[2] = call.name
    /\ getOwnedNames(call.caller)[1] # call.name

\* ---- C11 -----------------------------------------------------------------
\* C11: an update(name, newData) by the owner at time t that passes its
\* checks sets the record's data to newData and its updatedAt to t, appends
\* one Updated(name, caller, newData, t) event and changes nothing else:
\* owner and createdAt of the record, every other record, all ownedNames,
\* fee, pause flag, admin and balance stay as they are, and no value moves.
C11_UpdateEffect ==
    (IsCall /\ made.op = "update" /\ Passes)
       => LET n == made.name IN
          /\ made.caller = pre.registry[n].owner
          /\ registry[n] = [owner |-> pre.registry[n].owner,
                            data |-> made.data,
                            createdAt |-> pre.registry[n].createdAt,
                            updatedAt |-> now]
          /\ \A m \in Names \ {n} : registry[m] = pre.registry[m]
          /\ events = Append(pre.events,
                             Updated(n, made.caller, made.data, now))
          /\ made.sent = 0 /\ made.value = 0
          /\ ownedNames = pre.ownedNames
          /\ registrationFee = pre.registrationFee
          /\ paused = pre.paused
          /\ owner = pre.owner
          /\ balance = pre.balance
          /\ status = pre.status

\* an update in a later block than the registration stored new data: the
\* record has the new data and time, its owner and createdAt are the old ones
C11_Witness ==
    /\ call.op = "update"
    /\ call.status = "ok"
    /\ call.data # ""
    /\ registry[call.name].data = call.data
    /\ registry[call.name].owner = call.caller
    /\ registry[call.name].updatedAt = now
    /\ registry[call.name].createdAt < now
    /\ events[Len(events)] = Updated(call.name, call.caller, call.data, now)

\* ---- C12 -----------------------------------------------------------------
\* C12: a transfer(name, newOwner) by owner c at time t that passes its
\* checks sets owner to newOwner and updatedAt to t, appends name to
\* ownedNames[newOwner], appends one Transferred(name, c, newOwner, t)
\* event, and leaves the record's data and createdAt, ownedNames[c] (the
\* name stays in it), every other record and list, fee, pause flag and
\* balance as they are.
C12_TransferEffect ==
    (IsCall /\ made.op = "transfer" /\ Passes)
       => LET n == made.name
              c == made.caller
              newOwner == made.addr
          IN
          /\ c = pre.registry[n].owner
          /\ registry[n] = [owner |-> newOwner,
                            data |-> pre.registry[n].data,
                            createdAt |-> pre.registry[n].createdAt,
                            updatedAt |-> now]
          /\ \A m \in Names \ {n} : registry[m] = pre.registry[m]
          /\ ownedNames[newOwner] = Append(pre.ownedNames[newOwner], n)
          /\ \A a \in Addresses \ {newOwner} : ownedNames[a] = pre.ownedNames[a]
          /\ ownedNames[c] = pre.ownedNames[c]
          /\ \E i \in DOMAIN ownedNames[c] : ownedNames[c][i] = n
          /\ events = Append(pre.events, Transferred(n, c, newOwner, now))
          /\ registrationFee = pre.registrationFee
          /\ paused = pre.paused
          /\ owner = pre.owner
          /\ balance = pre.balance
          /\ status = pre.status

\* a transfer in a later block than the registration succeeded: the new
\* owner holds the record and has the name in its list, and the name is
\* still in the list of the previous owner
C12_Witness ==
    /\ call.op = "transfer"
    /\ call.status = "ok"
    /\ registry[call.name].owner = call.addr
    /\ call.addr # call.caller
    /\ registry[call.name].updatedAt = now
    /\ registry[call.name].createdAt < now
    /\ \E i \in DOMAIN ownedNames[call.addr] :
           ownedNames[call.addr][i] = call.name
    /\ \E i \in DOMAIN ownedNames[call.caller] :
           ownedNames[call.caller][i] = call.name
    /\ events[Len(events)] =
           Transferred(call.name, call.caller, call.addr, now)

\* ---- C13 -----------------------------------------------------------------
\* the log says the name has been transferred at least once
HandedOver(log, n) ==
    \E i \in DOMAIN log : log[i].type = "Transferred" /\ log[i].name = n
\* the most recent successful transfer of the name in the log: a1 gave it
\* to a2
LastTransfer(log, n) ==
    log[CHOOSE i \in DOMAIN log :
           /\ log[i].type = "Transferred" /\ log[i].name = n
           /\ \A j \in DOMAIN log :
                  (log[j].type = "Transferred" /\ log[j].name = n)
                     => j <= i]

\* C13 as stated: after a successful transfer(name, b) by a, until b
\* transfers the name away, every update and transfer of the name by a fails
\* with the authorization error "Not the owner".
C13_Original ==
    (IsCall /\ made.op \in {"update", "transfer"}
        /\ HandedOver(pre.events, made.name)
        /\ made.caller = LastTransfer(pre.events, made.name).a1)
       => /\ made.status = "fail"
          /\ made.err = "Not the owner"

\* the error the previous owner gets in state s
C13_PreviousOwnerError(s) ==
    IF s.paused THEN "EnforcedPause" ELSE "Not the owner"

\* C13 amended: after a successful transfer(name, b) by a, until b
\* transfers the name away, b is the owner; every update and transfer of the
\* name by a fails and changes nothing, with "Not the owner" while the
\* registry is not paused and with EnforcedPause while it is paused; an
\* update by b passes whenever the registry is not paused and the data is
\* at most 256 long, and stores b's data; once b has transferred the name
\* away, b is the previous owner and is refused in turn.
C13_HandOver ==
    /\ \A n \in Names : HandedOver(events, n) =>
          LET a == LastTransfer(events, n).a1
              b == LastTransfer(events, n).a2
          IN /\ registry[n].owner = b
             /\ a # b
             /\ \A d \in Datas :
                    UpdateError(a, n, d) = C13_PreviousOwnerError(Snapshot)
             /\ \A x \in Addresses :
                    TransferError(a, n, x) = C13_PreviousOwnerError(Snapshot)
             /\ \A d \in Datas :
                    (~paused /\ Len(d) <= MAX_DATA_LENGTH)
                       => UpdateError(b, n, d) = ""
    /\ (IsCall /\ made.op \in {"update", "transfer"}
           /\ HandedOver(pre.events, made.name)
           /\ made.caller = LastTransfer(pre.events, made.name).a1)
          => /\ made.status = "fail"
             /\ made.err = C13_PreviousOwnerError(pre)
             /\ Unchanged
    /\ (IsCall /\ made.op = "update"
           /\ HandedOver(pre.events, made.name)
           /\ made.caller = LastTransfer(pre.events, made.name).a2
           /\ ~pre.paused /\ made.status = "fail")
          => made.err = "Data too long"
    /\ (IsCall /\ made.op = "update" /\ made.status = "ok"
           /\ HandedOver(pre.events, made.name)
           /\ made.caller = LastTransfer(pre.events, made.name).a2)
          => /\ registry[made.name].owner = made.caller
             /\ registry[made.name].data = made.data
             /\ Len(events) = Len(pre.events) + 1
             /\ events[Len(events)].type = "Updated"
             /\ events[Len(events)].a1 = made.caller
    /\ (IsCall /\ made.op = "transfer" /\ made.status = "ok"
           /\ HandedOver(pre.events, made.name)
           /\ made.caller = LastTransfer(pre.events, made.name).a2)
          => /\ registry[made.name].owner = made.addr
             /\ LastTransfer(events, made.name).a1 = made.caller
             /\ LastTransfer(events, made.name).a2 = made.addr
             /\ \A d \in Datas :
                    UpdateError(made.caller, made.name, d)
                       = C13_PreviousOwnerError(Snapshot)

\* a registered the name and handed it to b, b updated it with success, and
\* a then tried to update it and got "Not the owner": the record is b's and
\* holds the data b stored
C13_Witness ==
    /\ call.op = "update"
    /\ call.status = "fail"
    /\ call.err = "Not the owner"
    /\ HandedOver(events, call.name)
    /\ call.caller = LastTransfer(events, call.name).a1
    /\ registry[call.name].owner = LastTransfer(events, call.name).a2
    /\ Len(events) = 4
    /\ events[2].type = "Registered" /\ events[2].a1 = call.caller
    /\ events[3].type = "Transferred" /\ events[3].a1 = call.caller
    /\ events[4].type = "Updated"
    /\ events[4].name = call.name
    /\ events[4].a1 = registry[call.name].owner
    /\ events[4].data # events[2].data
    /\ registry[call.name].data = events[4].data

\* ---- C14 -----------------------------------------------------------------
\* C14 as stated: a transfer by the current owner to the zero address fails
\* with "Invalid new owner", and one to the caller itself fails with
\* "Already the owner".
C14_Original ==
    \A n \in Names : registry[n].owner # Zero =>
        /\ TransferError(registry[n].owner, n, Zero) = "Invalid new owner"
        /\ TransferError(registry[n].owner, n, registry[n].owner)
              = "Already the owner"

\* C14 amended: while the registry is not paused, a transfer by the current
\* owner to the zero address fails with "Invalid new owner" and one to the
\* caller itself with "Already the owner"; while it is paused both fail with
\* EnforcedPause; a failed transfer changes no record, no updatedAt and no
\* ownedNames and appends no Transferred event; a transfer by the owner to
\* any other address passes when not paused.
C14_TransferValidation ==
    /\ \A n \in Names : registry[n].owner # Zero =>
          LET c == registry[n].owner IN
          /\ TransferError(c, n, Zero) =
                (IF paused THEN "EnforcedPause" ELSE "Invalid new owner")
          /\ TransferError(c, n, c) =
                (IF paused THEN "EnforcedPause" ELSE "Already the owner")
          /\ \A x \in Addresses \ {Zero, c} :
                TransferError(c, n, x) =
                    (IF paused THEN "EnforcedPause" ELSE "")
    /\ (IsCall /\ made.op = "transfer" /\ made.status = "fail")
          => /\ registry = pre.registry
             /\ ownedNames = pre.ownedNames
             /\ events = pre.events
             /\ (made.caller = pre.registry[made.name].owner /\ ~pre.paused)
                   => made.err \in {"Invalid new owner", "Already the owner"}
             /\ (made.caller = pre.registry[made.name].owner /\ pre.paused)
                   => made.err = "EnforcedPause"
    /\ (IsCall /\ made.op = "transfer" /\ Passes)
          => made.addr \notin {Zero, made.caller}

\* the owner of a name tried a transfer that was rejected as invalid, and
\* the name is still the caller's, with no Transferred event in the log
C14_Witness ==
    /\ call.op = "transfer"
    /\ call.status = "fail"
    /\ call.err \in {"Invalid new owner", "Already the owner"}
    /\ registry[call.name].owner = call.caller
    /\ EventsOf("Transferred") = {}

\* ---- C15 -----------------------------------------------------------------
AdminOps == {"setRegistrationFee", "pause", "unpause", "withdraw"}

\* C15: setRegistrationFee, pause, unpause and withdraw called by an account
\* other than the admin always fail as unauthorized and change neither fee,
\* pause flag, balance nor any record, in every reachable state.
C15_AdminGating ==
    /\ \A c \in Accounts \ {owner} :
          /\ OnlyOwnerError(c) = "OwnableUnauthorizedAccount"
          /\ PauseError(c) = "OwnableUnauthorizedAccount"
          /\ UnpauseError(c) = "OwnableUnauthorizedAccount"
          /\ \A to \in Addresses :
                 WithdrawError(c, to) = "OwnableUnauthorizedAccount"
    /\ (IsCall /\ made.op \in AdminOps /\ made.caller # pre.owner)
          => /\ made.status = "fail"
             /\ made.err = "OwnableUnauthorizedAccount"
             /\ registrationFee = pre.registrationFee
             /\ paused = pre.paused
             /\ balance = pre.balance
             /\ registry = pre.registry
             /\ Unchanged

\* an account other than the admin called withdraw on a registry holding
\* funds and was rejected as unauthorized; the funds are still there
C15_Witness ==
    /\ call.op = "withdraw"
    /\ call.status = "fail"
    /\ call.caller # owner
    /\ call.err = "OwnableUnauthorizedAccount"
    /\ balance > 0

\* ---- C16 -----------------------------------------------------------------
\* C16 as stated: the registry starts active and has no terminal state: in
\* every state the next transition of the flag is enabled for some account,
\* pause from active and unpause from paused.
C16_Original ==
    /\ EventsOf("Paused") = {} => ~paused
    /\ ~paused => \E c \in Accounts : PauseError(c) = ""
    /\ paused => \E c \in Accounts : UnpauseError(c) = ""

\* C16 amended: the registry starts active; the pause flag changes only by a
\* successful pause of the admin (active to paused) or a successful unpause
\* of the admin (paused to active), or back to its value at the start of a
\* transaction that reverts; pause on a paused registry and unpause on an
\* active one are rejected and change nothing; while the registry has an
\* admin, the admin can always pause an active registry and unpause a paused
\* one; once the admin has renounced ownership no account can do either,
\* and the flag and the missing admin stay as they are (unless the
\* transaction the renouncing was made in reverts).
C16_PauseStateMachine ==
    /\ EventsOf("Paused") = {} => ~paused
    /\ paused # pre.paused
          => \/ /\ IsCall /\ made.op = "pause" /\ made.status = "ok"
                /\ made.caller = pre.owner /\ ~pre.paused /\ paused
             \/ /\ IsCall /\ made.op = "unpause" /\ made.status = "ok"
                /\ made.caller = pre.owner /\ pre.paused /\ ~paused
             \/ /\ TransferFails /\ paused = saved[1].paused
    /\ (IsCall /\ made.op = "pause" /\ pre.paused)
          => /\ made.status = "fail"
             /\ made.caller = pre.owner => made.err = "EnforcedPause"
             /\ Unchanged
    /\ (IsCall /\ made.op = "unpause" /\ ~pre.paused)
          => /\ made.status = "fail"
             /\ made.caller = pre.owner => made.err = "ExpectedPause"
             /\ Unchanged
    /\ (IsCall /\ made.op = "pause" /\ ~pre.paused /\ made.caller = pre.owner)
          => made.status = "ok" /\ paused
    /\ (IsCall /\ made.op = "unpause" /\ pre.paused /\ made.caller = pre.owner)
          => made.status = "ok" /\ ~paused
    /\ \A c \in Accounts : c = owner
          => /\ ~paused => PauseError(c) = ""
             /\ paused => UnpauseError(c) = ""
    /\ owner = Zero
          => \A c \in Accounts :
                /\ PauseError(c) = "OwnableUnauthorizedAccount"
                /\ UnpauseError(c) = "OwnableUnauthorizedAccount"
    /\ (pre.owner = Zero /\ ~TransferFails)
          => (owner = Zero /\ paused = pre.paused)

\* the admin paused the registry, unpaused it, and a second unpause was then
\* rejected
C16_Witness ==
    /\ call.op = "unpause"
    /\ call.status = "fail"
    /\ call.caller = owner
    /\ call.err = "ExpectedPause"
    /\ EventsOf("Paused") # {}
    /\ EventsOf("Unpaused") # {}
    /\ ~paused

\* ---- C17 -----------------------------------------------------------------
\* the registry has an admin, and a call can be made: between transactions,
\* or while a value transfer is pending
AdminMayCall == owner # Zero /\ (Idle \/ Pending)

\* C17 as stated: while paused, the admin's setRegistrationFee, unpause and
\* withdraw (to a non-zero recipient, with a positive balance) succeed, so
\* from every paused state some account can bring the registry back to
\* active.
C17_Original ==
    /\ (paused /\ AdminMayCall) =>
          /\ OnlyOwnerError(owner) = ""
          /\ UnpauseError(owner) = ""
          /\ \A to \in Addresses \ {Zero} :
                 balance > 0 => WithdrawError(owner, to) = ""
    /\ ~(TransferFails /\ call.op = "withdraw" /\ saved[1].paused)
    /\ (paused /\ ~Returned) => \E c \in Accounts : UnpauseError(c) = ""

\* C17 amended: the pause flag gates none of the admin's controls.  While
\* paused, setRegistrationFee and unpause by the admin always succeed with
\* their normal effects, so as long as the registry has an admin, the admin
\* can always bring a paused registry back to active; withdraw by the admin
\* (to a non-zero recipient, with a positive balance) passes its checks
\* unless it re-enters a pending value transfer, and then succeeds if the
\* recipient accepts the payout and fails with "Withdrawal failed", undoing
\* the transaction, if it rejects it.  A registry whose admin has renounced
\* ownership has no admin: every account is refused all four controls, and
\* a paused one stays paused.
C17_AdminIgnoresPause ==
    /\ \A c \in Accounts : (paused /\ c = owner) =>
          /\ OnlyOwnerError(c) = ""
          /\ UnpauseError(c) = ""
          /\ \A to \in Addresses \ {Zero} :
                 WithdrawError(c, to) =
                    (IF status = ENTERED THEN "ReentrancyGuardReentrantCall"
                     ELSE IF balance > 0 THEN ""
                     ELSE "No funds to withdraw")
    /\ (paused /\ owner = Zero) =>
          \A c \in Accounts :
             /\ OnlyOwnerError(c) = "OwnableUnauthorizedAccount"
             /\ UnpauseError(c) = "OwnableUnauthorizedAccount"
             /\ \A to \in Addresses :
                    WithdrawError(c, to) = "OwnableUnauthorizedAccount"
    /\ (pre.paused /\ pre.owner = Zero /\ ~TransferFails) => paused
    /\ (pre.paused /\ IsCall /\ made.caller = pre.owner
           /\ made.op = "setRegistrationFee")
          => /\ made.status = "ok"
             /\ registrationFee = made.value
             /\ paused
    /\ (pre.paused /\ IsCall /\ made.caller = pre.owner /\ made.op = "unpause")
          => /\ made.status = "ok"
             /\ ~paused
    /\ (pre.paused /\ IsCall /\ made.caller = pre.owner /\ made.op = "withdraw"
           /\ made.status = "fail")
          => \/ made.err = "ReentrancyGuardReentrantCall" /\ pre.status = ENTERED
             \/ made.err = "No funds to withdraw" /\ pre.balance = 0
             \/ made.err = "Invalid address"
    /\ (pre.paused /\ IsCall /\ made.op = "withdraw" /\ Passes)
          => /\ made.sent = pre.balance
             /\ balance = 0
             /\ paused
    /\ (TransferFails /\ call.op = "withdraw")
          => /\ call.err = "Withdrawal failed"
             /\ Snapshot = saved[1]

\* while the registry was paused the admin withdrew its funds: the payout
\* was accepted and the registry is still paused
C17_Witness ==
    /\ paused
    /\ call.op = "withdraw"
    /\ call.status = "ok"
    /\ call.caller = owner
    /\ call.sent > 0
    /\ EventsOf("FundsWithdrawn") # {}

\* ---- C18 -----------------------------------------------------------------
\* number of FundsWithdrawn events in a log
C18_Withdrawals(log) ==
    Cardinality({i \in DOMAIN log : log[i].type = "FundsWithdrawn"})

\* C18 as stated: when a withdraw(to) by the admin finishes successfully, to
\* has received the whole balance held at call entry and the balance of the
\* registry is 0.
C18_Original ==
    (TransferSucceeds /\ call.op = "withdraw")
       => /\ call.sent = saved[1].balance
          /\ balance = 0

\* C18 amended: a withdraw(to) by the admin that passes its checks sends to
\* exactly the whole balance B held at call entry, which leaves the registry
\* with balance 0 at that moment, and changes no record, ownedNames, fee or
\* pause flag; when to accepts the payout exactly one FundsWithdrawn(to, B)
\* event is appended and nothing else changes.  The balance when the call
\* finishes is what was deposited into the registry during the payout: 0
\* unless value came back while to was receiving.
C18_WithdrawEffect ==
    /\ (IsCall /\ made.op = "withdraw" /\ Passes)
          => /\ made.caller = pre.owner
             /\ made.addr # Zero
             /\ made.sent = pre.balance
             /\ made.sent > 0
             /\ balance = 0
             /\ withdrawn = pre.withdrawn + pre.balance
             /\ registry = pre.registry
             /\ ownedNames = pre.ownedNames
             /\ registrationFee = pre.registrationFee
             /\ paused = pre.paused
             /\ made.status = "pending" => events = pre.events
    /\ (TransferSucceeds /\ call.op = "withdraw")
          => /\ call.sent = saved[1].balance
             /\ events = Append(pre.events,
                                [type |-> "FundsWithdrawn", name |-> "",
                                 a1 |-> call.addr, a2 |-> Zero,
                                 data |-> "", n1 |-> saved[1].balance,
                                 n2 |-> 0])
             /\ C18_Withdrawals(events) =
                   C18_Withdrawals(saved[1].events) + 1
             /\ balance = deposited - saved[1].deposited
             /\ registry = pre.registry
             /\ ownedNames = pre.ownedNames
             /\ registrationFee = pre.registrationFee
             /\ paused = pre.paused
             /\ balance = pre.balance

\* the admin withdrew a registry holding 2, of which one was a registration
\* fee: the recipient got 2, the registry has 0 and one FundsWithdrawn(to, 2)
\* event is the last of the log
C18_Witness ==
    /\ call.op = "withdraw"
    /\ call.status = "ok"
    /\ call.sent = 2
    /\ balance = 0
    /\ feesReceived > 0
    /\ events[Len(events)].type = "FundsWithdrawn"
    /\ events[Len(events)].a1 = call.addr
    /\ events[Len(events)].n1 = 2
    /\ C18_Withdrawals(events) = 1

\* ---- C19 -----------------------------------------------------------------
\* C19 as stated: withdraw by the admin fails with "Invalid address" when to
\* is the zero address and with "No funds to withdraw" when the balance is
\* 0; a second withdraw right after a successful one always fails; a failed
\* payout fails the withdraw and leaves the balance intact.
C19_Original ==
    /\ AdminMayCall => WithdrawError(owner, Zero) = "Invalid address"
    /\ AdminMayCall => \A to \in Addresses \ {Zero} :
          balance = 0 => WithdrawError(owner, to) = "No funds to withdraw"
    /\ (call.op = "withdraw" /\ call.status = "ok")
          => \A to \in Addresses : WithdrawError(owner, to) # ""
    /\ (TransferFails /\ call.op = "withdraw")
          => balance = saved[1].balance

\* the error of a withdraw by the admin in state s, check by check
C19_AdminWithdrawError(s, to) ==
    IF s.status = ENTERED THEN "ReentrancyGuardReentrantCall"
    ELSE IF to = Zero THEN "Invalid address"
    ELSE IF s.balance = 0 THEN "No funds to withdraw"
    ELSE ""

\* C19 amended: a withdraw by the admin that does not re-enter a pending
\* value transfer fails with "Invalid address" when to is the zero address
\* and otherwise with "No funds to withdraw" when the balance is 0; one
\* that re-enters fails with the guard's error; a failed withdraw changes
\* nothing.  After a successful withdraw the next one fails whenever the
\* balance is 0, which it is unless value was deposited during the payout.
\* A payout rejected by to fails the withdraw with "Withdrawal failed" and
\* leaves the balance, and everything else, as before the call.
C19_WithdrawPreconditions ==
    /\ \A c \in Accounts, to \in Addresses :
          c = owner => WithdrawError(c, to) = C19_AdminWithdrawError(Snapshot, to)
    /\ (IsCall /\ made.op = "withdraw" /\ made.caller = pre.owner
           /\ made.status = "fail")
          => /\ made.err \in {C19_AdminWithdrawError(pre, to) : to \in Addresses}
             /\ made.err # ""
             /\ Unchanged
    /\ (IsCall /\ made.op = "withdraw" /\ pre.balance = 0)
          => made.status = "fail"
    /\ (TransferSucceeds /\ call.op = "withdraw")
          => /\ balance = deposited - saved[1].deposited
             /\ balance = 0
                  => \A c \in Accounts, to \in Addresses :
                         WithdrawError(c, to) # ""
    /\ (TransferFails /\ call.op = "withdraw")
          => /\ call.err = "Withdrawal failed"
             /\ balance = saved[1].balance
             /\ balance = call.sent
             /\ Snapshot = saved[1]

\* right after a successful withdraw the admin withdrew again and was
\* rejected for lack of funds
C19_Witness ==
    /\ call.op = "withdraw"
    /\ call.status = "fail"
    /\ call.caller = owner
    /\ call.err = "No funds to withdraw"
    /\ withdrawn > 0
    /\ balance = 0
    /\ events[Len(events)].type = "FundsWithdrawn"

\* ---- C20 -----------------------------------------------------------------
\* the most recent FeeUpdated event of the log
C20_LastFeeUpdate ==
    events[CHOOSE i \in EventsOf("FeeUpdated") :
              \A j \in EventsOf("FeeUpdated") : j <= i]

\* C20: setRegistrationFee(newFee) by the admin always succeeds, for every
\* newFee including 0 and the current fee; it sets registrationFee to newFee,
\* appends FeeUpdated(oldFee, newFee) and changes no record and no balance;
\* from then on register is gated by, and keeps exactly, the new fee: a
\* payment below it is rejected, and with fee 0 a payment of 0 is enough.
C20_SetRegistrationFee ==
    /\ \A c \in Accounts : c = owner => OnlyOwnerError(c) = ""
    /\ (IsCall /\ made.op = "setRegistrationFee" /\ made.caller = pre.owner)
          => /\ made.status = "ok"
             /\ made.value \in Fees
             /\ registrationFee = made.value
             /\ events = Append(pre.events,
                                [type |-> "FeeUpdated", name |-> "",
                                 a1 |-> Zero, a2 |-> Zero, data |-> "",
                                 n1 |-> pre.registrationFee,
                                 n2 |-> made.value])
             /\ registry = pre.registry
             /\ ownedNames = pre.ownedNames
             /\ balance = pre.balance
             /\ paused = pre.paused
             /\ owner = pre.owner
             /\ status = pre.status
    /\ EventsOf("FeeUpdated") # {}
          => registrationFee = C20_LastFeeUpdate.n2
    /\ \A n \in Names, d \in Datas, v \in Payments :
          /\ v < registrationFee => RegisterError(n, d, v) # ""
          /\ (/\ ~paused /\ status = NOT_ENTERED
              /\ Len(n) \in 1..MAX_NAME_LENGTH /\ Len(d) <= MAX_DATA_LENGTH
              /\ isAvailable(n))
                => RegisterError(n, d, v) =
                      (IF v >= registrationFee THEN ""
                                               ELSE "Insufficient fee")
    /\ (IsCall /\ made.op = "register" /\ Passes)
          => /\ made.value >= pre.registrationFee
             /\ balance = pre.balance + pre.registrationFee

\* the admin lowered the fee from 1 to 0, and a register paying 0 then
\* succeeded and left the balance as it was
C20_Witness ==
    /\ EventsOf("FeeUpdated") # {}
    /\ C20_LastFeeUpdate.n1 = 1
    /\ C20_LastFeeUpdate.n2 = 0
    /\ registrationFee = 0
    /\ call.op = "register"
    /\ call.status = "ok"
    /\ call.value = 0
    /\ registry[call.name].owner = call.caller
    /\ balance = 0

\* ---- C21 -----------------------------------------------------------------
\* C21: a plain value transfer of amount v to the registry, from any account
\* and in every state, paused or not, succeeds, increases the balance by
\* exactly v, changes no record, no ownedNames, neither fee nor pause flag,
\* and emits no event.
C21_DirectDeposit ==
    (IsCall /\ made.op = "receive")
       => /\ made.status = "ok"
          /\ made.value > 0
          /\ balance = pre.balance + made.value
          /\ deposited = pre.deposited + made.value
          /\ registry = pre.registry
          /\ ownedNames = pre.ownedNames
          /\ registrationFee = pre.registrationFee
          /\ paused = pre.paused
          /\ owner = pre.owner
          /\ status = pre.status
          /\ events = pre.events

\* an account other than the admin deposited into a paused registry holding
\* a record: the balance is the deposit
C21_Witness ==
    /\ call.op = "receive"
    /\ call.status = "ok"
    /\ call.caller # owner
    /\ paused
    /\ registered # {}
    /\ call.value > 0
    /\ balance = registrationFee + call.value
    /\ withdrawn = 0

\* ---- C22 -----------------------------------------------------------------
\* s is a prefix of t
IsPrefix(s, t) ==
    /\ Len(s) <= Len(t)
    /\ \A i \in DOMAIN s : s[i] = t[i]
\* how often a name occurs in a list
Occurrences(list, n) == Cardinality({i \in DOMAIN list : list[i] = n})
\* how often the log says the name was given to the account
C22_TimesGiven(a, n) ==
    Cardinality({i \in DOMAIN events :
                    /\ events[i].name = n
                    /\ \/ events[i].type = "Registered" /\ events[i].a1 = a
                       \/ events[i].type = "Transferred" /\ events[i].a2 = a})

\* C22: ownedNames is an append-only history.  In every step other than the
\* revert of a transaction the old ownedNames[a] is a prefix of the new one,
\* for every account a; a list changes only by a register that passes (the
\* caller's list) or a transfer that passes (the new owner's list), which
\* append the name; a reverted transaction leaves the lists it started
\* with, themselves prefixes of what it had appended to; a name occurs in
\* ownedNames[a] once for every time it was registered by or transferred to
\* a, so a name transferred a -> b -> a appears twice in ownedNames[a].
C22_OwnedNamesAppendOnly ==
    /\ ~TransferFails
          => \A a \in Addresses :
                /\ IsPrefix(pre.ownedNames[a], ownedNames[a])
                /\ ownedNames[a] # pre.ownedNames[a]
                     => /\ IsCall /\ Passes
                        /\ \/ made.op = "register" /\ a = made.caller
                           \/ made.op = "transfer" /\ a = made.addr
                        /\ ownedNames[a] = Append(pre.ownedNames[a], made.name)
    /\ TransferFails
          => \A a \in Addresses :
                /\ ownedNames[a] = saved[1].ownedNames[a]
                /\ IsPrefix(ownedNames[a], pre.ownedNames[a])
    /\ \A a \in Addresses, n \in Names :
          Occurrences(ownedNames[a], n) = C22_TimesGiven(a, n)

\* a name went from a to b and back to a: it is twice in the list of a and
\* once in the list of b, and a owns it
C22_Witness ==
    \E a \in Accounts, b \in Accounts, n \in Names :
        /\ a # b
        /\ registry[n].owner = a
        /\ Len(events) = 4
        /\ events[2] = Registered(n, a, events[2].data, events[2].n1)
        /\ events[3] = Transferred(n, a, b, events[3].n1)
        /\ events[4] = Transferred(n, b, a, events[4].n1)
        /\ Occurrences(ownedNames[a], n) = 2
        /\ Occurrences(ownedNames[b], n) = 1
        /\ ownedNames[a] = <<n, n>>
        /\ ownedNames[b] = <<n>>
        /\ Idle

\* ---- C23 -----------------------------------------------------------------
\* the names in a list
NamesIn(list) == {list[i] : i \in DOMAIN list}

\* C23: getOwnedNames(a) returns the names owned by a: in every reachable
\* state (taken between transactions) the names in getOwnedNames(a) are
\* exactly the names whose record's current owner is a.
C23_OwnedNamesAreOwned ==
    Idle => \A a \in Accounts :
               NamesIn(getOwnedNames(a)) = {n \in Names : registry[n].owner = a}

\* ---- C24 -----------------------------------------------------------------
\* the values getRecord can return
C24_RecordValues ==
    (Addresses \X Datas \X (0..MaxTime) \X (0..MaxTime))

\* C24: getRecord succeeds for every name; for a name never registered it
\* returns (zero owner, empty data, 0, 0); in every reachable state a record
\* has a non-zero owner iff its createdAt is above 0, and an unregistered
\* name has empty data and zero timestamps.
C24_QueriesReflectRegistration ==
    \A n \in Names :
        /\ getRecord(n) \in C24_RecordValues
        /\ isAvailable(n) \in BOOLEAN
        /\ n \notin registered => getRecord(n) = <<Zero, "", 0, 0>>
        /\ registry[n].owner # Zero <=> registry[n].createdAt > 0
        /\ registry[n].owner = Zero
             => /\ registry[n].data = ""
                /\ registry[n].createdAt = 0
                /\ registry[n].updatedAt = 0
        /\ n \in registered <=> registry[n].owner # Zero

\* one name is registered, with data and a creation time, and the register
\* of another name was undone by its rejected refund: getRecord of that one
\* returns the zero record
C24_Witness ==
    /\ call.op = "register"
    /\ call.status = "fail"
    /\ call.err = "Refund failed"
    /\ getRecord(call.name) = <<Zero, "", 0, 0>>
    /\ \E m \in Names :
          /\ registry[m].owner # Zero
          /\ registry[m].data # ""
          /\ registry[m].createdAt > 0

\* ---- C25 -----------------------------------------------------------------
\* the error of register if it checked in the order the claim gives: name,
\* data, availability, payment, pause
C25_ClaimedError(name, data, value) ==
    IF Len(name) = 0 THEN "Name cannot be empty"
    ELSE IF Len(name) > MAX_NAME_LENGTH THEN "Name too long"
    ELSE IF Len(data) > MAX_DATA_LENGTH THEN "Data too long"
    ELSE IF registry[name].owner # Zero THEN "Name already registered"
    ELSE IF value < registrationFee THEN "Insufficient fee"
    ELSE IF paused THEN "EnforcedPause"
    ELSE ""

\* C25 as stated: a register made between transactions reports the first
\* failing precondition in the order (1) name non-empty and at most 32 long,
\* (2) data at most 256 long, (3) name not registered, (4) payment at least
\* the fee, (5) registry not paused.
C25_Original ==
    Idle => \A n \in Names, d \in Datas, v \in Payments :
               RegisterError(n, d, v) = C25_ClaimedError(n, d, v)

\* the error of register in state s, in the order the contract checks
C25_OrderedError(s, name, data, value) ==
    IF s.paused THEN "EnforcedPause"
    ELSE IF s.status = ENTERED THEN "ReentrancyGuardReentrantCall"
    ELSE IF Len(name) = 0 THEN "Name cannot be empty"
    ELSE IF Len(name) > MAX_NAME_LENGTH THEN "Name too long"
    ELSE IF Len(data) > MAX_DATA_LENGTH THEN "Data too long"
    ELSE IF s.registry[name].owner # Zero THEN "Name already registered"
    ELSE IF value < s.registrationFee THEN "Insufficient fee"
    ELSE ""

\* C25 amended: register reports the first failing check in this order:
\* registry not paused, call not re-entering a pending value transfer, name
\* non-empty, name at most 32 long, data at most 256 long, name not
\* registered, payment at least the fee; a register that fails changes
\* nothing, and one that fails while the registry is paused reports the
\* pause whatever else is wrong with it.  (The order is stated of every
\* state in which a call can be made: between calls and during a value
\* transfer.)
C25_RegisterCheckOrder ==
    /\ ~Returned => \A n \in Names, d \in Datas, v \in Payments :
          RegisterError(n, d, v) = C25_OrderedError(Snapshot, n, d, v)
    /\ (IsCall /\ made.op = "register" /\ made.status = "fail")
          => /\ made.err # ""
             /\ pre.paused => made.err = "EnforcedPause"
             /\ (~pre.paused /\ pre.status = ENTERED)
                   => made.err = "ReentrancyGuardReentrantCall"
             /\ Unchanged
    /\ (IsCall /\ made.op = "register" /\ Passes)
          => C25_OrderedError(pre, made.name, made.data, made.value) = ""

\* a register with an empty name was made while the registry was paused,
\* and the error it got is the pause, not the name
C25_Witness ==
    /\ call.op = "register"
    /\ call.status = "fail"
    /\ call.name = ""
    /\ paused
    /\ call.err = "EnforcedPause"

\* ---- C26 -----------------------------------------------------------------
\* C26 as stated: a register made between transactions is rejected with
\* "Name cannot be empty" for a name of length 0 and with "Name too long"
\* for one of length 33 or more; register (of an acceptable name) and update
\* (by the owner) are rejected with "Data too long" for data of length 257
\* or more.
C26_Original ==
    Idle =>
      /\ \A n \in Names, d \in Datas, v \in Payments :
            /\ Len(n) = 0 => RegisterError(n, d, v) = "Name cannot be empty"
            /\ Len(n) > MAX_NAME_LENGTH => RegisterError(n, d, v) = "Name too long"
            /\ (Len(n) \in 1..MAX_NAME_LENGTH /\ Len(d) > MAX_DATA_LENGTH)
                  => RegisterError(n, d, v) = "Data too long"
      /\ \A n \in Names, d \in Datas :
            (registry[n].owner # Zero /\ Len(d) > MAX_DATA_LENGTH)
               => UpdateError(registry[n].owner, n, d) = "Data too long"

\* C26 amended: while the registry is not paused and the call does not
\* re-enter a pending value transfer, register rejects a name of length 0
\* ("Name cannot be empty") and of length 33 or more ("Name too long"), and
\* for a name of length 1..32 rejects data of length 257 or more ("Data too
\* long") and passes its length checks otherwise; while the registry is not
\* paused, update by the owner rejects data of length 257 or more ("Data too
\* long") and accepts data of length 0..256; while paused both fail with
\* EnforcedPause; so every stored record has a name of length 1..32 and
\* data of length at most 256.  (The errors are stated of every state in
\* which a call can be made: between calls and during a value transfer.)
C26_LengthLimits ==
    /\ ~Returned => \A n \in Names, d \in Datas, v \in Payments :
          LET e == RegisterError(n, d, v)
          IN  IF paused THEN e = "EnforcedPause"
              ELSE IF status # NOT_ENTERED THEN TRUE
              ELSE IF Len(n) = 0 THEN e = "Name cannot be empty"
              ELSE IF Len(n) > MAX_NAME_LENGTH THEN e = "Name too long"
              ELSE IF Len(d) > MAX_DATA_LENGTH THEN e = "Data too long"
              ELSE e \in {"", "Name already registered",
                          "Insufficient fee"}
    /\ ~Returned => \A n \in Names, d \in Datas :
          registry[n].owner # Zero
             => UpdateError(registry[n].owner, n, d) =
                   (IF paused THEN "EnforcedPause"
                    ELSE IF Len(d) > MAX_DATA_LENGTH THEN "Data too long"
                    ELSE "")
    /\ (IsCall /\ made.op = "register" /\ Passes)
          => /\ Len(made.name) \in 1..MAX_NAME_LENGTH
             /\ Len(made.data) \in 0..MAX_DATA_LENGTH
    /\ (IsCall /\ made.op = "update" /\ Passes)
          => Len(made.data) \in 0..MAX_DATA_LENGTH
    /\ \A n \in Names : registry[n].owner # Zero
          => /\ Len(n) \in 1..MAX_NAME_LENGTH
             /\ Len(registry[n].data) <= MAX_DATA_LENGTH

\* a name of the greatest length is registered and holds data of the
\* greatest length, stored by an update
C26_Witness ==
    /\ registry[Name32].owner # Zero
    /\ registry[Name32].data = Data256
    /\ Len(Name32) = MAX_NAME_LENGTH
    /\ Len(registry[Name32].data) = MAX_DATA_LENGTH
    /\ call.op = "update"
    /\ call.status = "ok"
    /\ call.name = Name32

\* ---- C27 -----------------------------------------------------------------
\* the state the claim describes: admin is the deployer, the fee is the one
\* given, not paused, every name available, every list empty
C27_FreshRegistry ==
    /\ owner = Deployer
    /\ registrationFee \in Fees
    /\ ~paused
    /\ \A n \in Names : isAvailable(n) /\ getRecord(n) = <<Zero, "", 0, 0>>
    /\ \A a \in Addresses : getOwnedNames(a) = <<>>
    /\ balance = 0

\* right after construction: nothing has been called with success, the
\* administration has not been handed over and the clock has not moved
C27_AsConstructed ==
    /\ call = NoCall /\ now = 1 /\ registered = {} /\ deposited = 0
    /\ EventsOf("Paused") = {} /\ EventsOf("FeeUpdated") = {}
    /\ Cardinality(EventsOf("OwnershipTransferred")) <= 1

\* C27 as stated: right after construction the admin is the deployer, the
\* fee is the initial fee, the registry is not paused, every name is
\* available, every ownedNames is empty and no event has been emitted.
C27_Original ==
    C27_AsConstructed => (C27_FreshRegistry /\ events = <<>>)

\* C27 amended: right after construction the admin is the deployer, the fee
\* is the initial fee, the registry is not paused, every name is available,
\* every ownedNames is empty, and none of the registry's own events
\* (Registered, Updated, Transferred, FeeUpdated, FundsWithdrawn) has been
\* emitted: the log holds exactly the OwnershipTransferred(0, deployer)
\* event of the inherited constructor, which stays its first entry.
C27_InitialState ==
    /\ C27_AsConstructed =>
          /\ C27_FreshRegistry
          /\ events = <<[type |-> "OwnershipTransferred", name |-> "",
                         a1 |-> Zero, a2 |-> Deployer, data |-> "",
                         n1 |-> 0, n2 |-> 0]>>
          /\ \A t \in {"Registered", "Updated", "Transferred", "FeeUpdated",
                       "FundsWithdrawn", "Paused", "Unpaused"} :
                 EventsOf(t) = {}
    /\ Len(events) >= 1
    /\ events[1] = pre.events[1]
    /\ events[1].type = "OwnershipTransferred"

\* the registry as constructed with the highest fee of the model: nothing
\* has been called and the clock has not moved
C27_Witness ==
    /\ C27_FreshRegistry
    /\ registrationFee = MaxFee
    /\ Len(events) = 1
    /\ events[1].type = "OwnershipTransferred"
    /\ call = NoCall
    /\ now = 1
    /\ deposited = 0

\* ---- C28 -----------------------------------------------------------------
\* the record a register writes, from its report
C28_RegisteredRecord ==
    [owner |-> call.caller, data |-> call.data,
     createdAt |-> now, updatedAt |-> now]

\* C28: while the refund of a register or the payout of a withdraw is being
\* delivered, no call of register, update, transfer or withdraw made from
\* inside that transfer succeeds, so when the outer operation finishes the
\* state is its own effects applied to the state at its start: after a
\* register, the records and lists it started from with the one record
\* written and the one name appended; after a withdraw, the records and
\* lists it started from.
C28_ReentrancyIsolation ==
    /\ (Nested /\ made.op \in {"register", "update", "transfer", "withdraw"})
          => made.status = "fail"
    /\ (TransferSucceeds /\ call.op = "register")
          => /\ registry = [saved[1].registry EXCEPT
                               ![call.name] = C28_RegisteredRecord]
             /\ ownedNames = [saved[1].ownedNames EXCEPT
                                 ![call.caller] = Append(@, call.name)]
    /\ (TransferSucceeds /\ call.op = "withdraw")
          => /\ registry = saved[1].registry
             /\ ownedNames = saved[1].ownedNames

\* ---- C29 -----------------------------------------------------------------
\* C29 as stated: within one withdraw the payout is fixed before the
\* transfer, every withdraw or register attempted during the payout is
\* rejected by the re-entry guard, and no more than the balance held at call
\* entry leaves the registry.
C29_Original ==
    /\ (Pending /\ call.op = "withdraw") => call.sent = saved[1].balance
    /\ (Nested /\ call.op = "withdraw" /\ made.op \in {"withdraw", "register"})
          => /\ made.status = "fail"
             /\ made.err = "ReentrancyGuardReentrantCall"
    /\ (TransferSucceeds /\ call.op = "withdraw")
          => withdrawn - saved[1].withdrawn <= saved[1].balance

\* the error of a withdraw or register attempted during a payout, in state
\* s: the check that runs before the re-entry guard, else the guard
C29_NestedError(s, op, c) ==
    IF op = "withdraw" /\ c # s.owner THEN "OwnableUnauthorizedAccount"
    ELSE IF op = "register" /\ s.paused THEN "EnforcedPause"
    ELSE "ReentrancyGuardReentrantCall"

\* C29 amended: within one withdraw the payout is the balance held at call
\* entry, taken out of the balance before the transfer; every withdraw or
\* register attempted during the payout, by the recipient or by any account
\* its code has call the registry, fails and changes nothing: rejected by
\* the re-entry guard, unless the caller is not the admin (withdraw) or the
\* registry is paused (register), in which case the earlier check rejects
\* it; the value that has left the registry when the withdraw finishes is
\* exactly the balance it held at call entry.
C29_NoDoubleWithdrawal ==
    /\ (Pending /\ call.op = "withdraw")
          => /\ call.sent = saved[1].balance
             /\ withdrawn = saved[1].withdrawn + saved[1].balance
             /\ balance = deposited - saved[1].deposited
    /\ (Nested /\ call.op = "withdraw" /\ made.op \in {"withdraw", "register"})
          => /\ made.caller \in Accounts
             /\ made.status = "fail"
             /\ made.err = C29_NestedError(pre, made.op, made.caller)
             /\ Unchanged
    /\ (TransferSucceeds /\ call.op = "withdraw")
          => /\ withdrawn - saved[1].withdrawn = saved[1].balance
             /\ withdrawn - saved[1].withdrawn <= saved[1].balance

\* the admin is withdrawing to its own account, which tried to withdraw again
\* while receiving the payout and was rejected by the guard
C29_Witness ==
    /\ Pending
    /\ call.op = "withdraw"
    /\ call.addr = owner
    /\ call.sent > 0
    /\ inner.op = "withdraw"
    /\ inner.status = "fail"
    /\ inner.err = "ReentrancyGuardReentrantCall"
    /\ balance = 0

\* ---- C30 -----------------------------------------------------------------
\* C30 as stated: after the owner's successful update of a registered name,
\* getRecord returns the new data and updatedAt > createdAt (of an update
\* made as a transaction of its own, outside any pending value transfer).
C30_Original ==
    \A n \in Names :
        (TopLevel /\ made.op = "update" /\ made.status = "ok" /\ made.name = n)
           => /\ getRecord(n)[2] = made.data
              /\ getRecord(n)[4] > getRecord(n)[3]

\* C30 amended: after the owner's successful update of a registered name,
\* getRecord returns the new data, the owner and createdAt it had, and
\* updatedAt = the time of the update, which is >= createdAt and strictly
\* greater when the update is made at a later time than the registration.
C30_UpdateStamps ==
    \A n \in Names :
        (IsCall /\ made.op = "update" /\ made.status = "ok" /\ made.name = n)
           => /\ made.caller = RecordIn(pre, n)[1]
              /\ getRecord(n)[2] = made.data
              /\ getRecord(n)[1] = RecordIn(pre, n)[1]
              /\ getRecord(n)[3] = RecordIn(pre, n)[3]
              /\ getRecord(n)[4] = now
              /\ getRecord(n)[4] >= getRecord(n)[3]
              /\ now > RecordIn(pre, n)[3]
                   => getRecord(n)[4] > getRecord(n)[3]

\* the owner of a name updated it with new data at a later time than it was
\* registered
C30_Witness ==
    /\ call.op = "update"
    /\ call.status = "ok"
    /\ getRecord(call.name)[1] = call.caller
    /\ getRecord(call.name)[2] = call.data
    /\ call.data # ""
    /\ getRecord(call.name)[4] = now
    /\ getRecord(call.name)[4] > getRecord(call.name)[3]

\* ---- C31 -----------------------------------------------------------------
\* what an indexer holds before it has read any event: no name has an owner,
\* and the fee is not known; fee is the set of the fee the log has told, empty
\* until an event tells one
C31_Start ==
    [owner |-> [n \in Names |-> Zero], data |-> [n \in Names |-> ""],
     updatedAt |-> [n \in Names |-> 0], fee |-> {}]

\* one event applied: Registered sets owner and data, Updated sets data,
\* Transferred sets owner, each with the event's timestamp; FeeUpdated sets
\* the fee; every other event leaves what the indexer holds as it is
C31_Apply(s, e) ==
    IF e.type = "Registered"
    THEN [s EXCEPT !.owner[e.name] = e.a1, !.data[e.name] = e.data,
                   !.updatedAt[e.name] = e.n1]
    ELSE IF e.type = "Updated"
    THEN [s EXCEPT !.data[e.name] = e.data, !.updatedAt[e.name] = e.n1]
    ELSE IF e.type = "Transferred"
    THEN [s EXCEPT !.owner[e.name] = e.a2, !.updatedAt[e.name] = e.n1]
    ELSE IF e.type = "FeeUpdated"
    THEN [s EXCEPT !.fee = {e.n2}]
    ELSE s

RECURSIVE C31_Replay(_, _)
\* the log replayed in order from the start
C31_Replay(log, start) ==
    IF log = <<>> THEN start
    ELSE C31_Apply(C31_Replay(SubSeq(log, 1, Len(log) - 1), start),
                   log[Len(log)])

\* what the registry holds, as the queries return it
C31_Current ==
    [owner |-> [n \in Names |-> getRecord(n)[1]],
     data |-> [n \in Names |-> getRecord(n)[2]],
     updatedAt |-> [n \in Names |-> getRecord(n)[4]],
     fee |-> {registrationFee}]

\* the event a successful call of the operation appends
C31_KindOf(op) ==
    CASE op = "register" -> "Registered"
      [] op = "update" -> "Updated"
      [] op = "transfer" -> "Transferred"
      [] op = "setRegistrationFee" -> "FeeUpdated"
      [] op = "withdraw" -> "FundsWithdrawn"
      [] OTHER -> "none"

\* how many events of the type the log holds
C31_Count(log, type) == Cardinality({i \in DOMAIN log : log[i].type = type})

\* C31 as stated: in every reachable state the log replayed from nothing
\* gives exactly the current owner, data and updatedAt of every name and the
\* current fee.
C31_Original == C31_Replay(events, C31_Start) = C31_Current

\* the log replayed from nothing
C31_Replayed == C31_Replay(events, C31_Start)

\* C31 amended: the event log is append-only and ordered as the operations
\* took effect (a reverted transaction leaves no event); each successful
\* register, update, transfer, setRegistrationFee and withdraw appends
\* exactly one event of its kind, as the last of the log, and a failed call
\* appends none; in every reachable state the log replayed from nothing
\* gives exactly the current owner, data and updatedAt of every name; it
\* gives the current fee once the log holds a FeeUpdated event, and no fee
\* at all before: the constructor stores the initial fee without an event.
C31_EventLogReplay ==
    /\ C31_Replayed.owner = C31_Current.owner
    /\ C31_Replayed.data = C31_Current.data
    /\ C31_Replayed.updatedAt = C31_Current.updatedAt
    /\ C31_Replayed.fee = (IF EventsOf("FeeUpdated") = {} THEN {}
                           ELSE {registrationFee})
    /\ registrationFee \in Fees
    /\ registrationFee # pre.registrationFee
          => \/ TransferFails
             \/ /\ IsCall /\ made.op = "setRegistrationFee" /\ Passes
                /\ events[Len(events)].n1 = pre.registrationFee
                /\ events[Len(events)].n2 = registrationFee
    /\ ~TransferFails => IsPrefix(pre.events, events)
    /\ TransferFails => events = saved[1].events
    /\ (IsCall /\ made.status = "fail") => events = pre.events
    /\ (IsCall /\ Passes
           /\ made.op \in {"register", "update", "transfer",
                           "setRegistrationFee"})
          => /\ Len(events) = Len(pre.events) + 1
             /\ events[Len(events)].type = C31_KindOf(made.op)
             /\ events[Len(events)].name = made.name
    /\ (IsCall /\ made.op = "withdraw" /\ Passes)
          => IF made.status = "ok"
             THEN /\ Len(events) = Len(pre.events) + 1
                  /\ events[Len(events)].type = "FundsWithdrawn"
             ELSE events = pre.events
    /\ TransferSucceeds
          => IF call.op = "withdraw"
             THEN /\ Len(events) = Len(pre.events) + 1
                  /\ events[Len(events)].type = "FundsWithdrawn"
                  /\ C31_Count(events, "FundsWithdrawn") =
                        C31_Count(saved[1].events, "FundsWithdrawn") + 1
             ELSE events = pre.events

\* the admin changed the fee and a name was then registered at the new fee,
\* one event each in that order: the log replayed gives the new fee and the
\* record of the name
C31_Witness ==
    /\ Idle
    /\ Len(events) = 3
    /\ events[2].type = "FeeUpdated"
    /\ events[2].n1 # events[2].n2
    /\ events[3].type = "Registered"
    /\ events[3].data # ""
    /\ C31_Replayed.fee = {events[2].n2}
    /\ C31_Replayed.fee = {registrationFee}
    /\ C31_Replayed.owner[events[3].name] = events[3].a1
    /\ C31_Replayed.data[events[3].name] = events[3].data
    /\ getRecord(events[3].name) =
          <<events[3].a1, events[3].data, events[3].n1, events[3].n1>>

\* ---- C32 -----------------------------------------------------------------
\* the configuration of a contract state: fee, pause flag and admin
C32_Config(s) == <<s.registrationFee, s.paused, s.owner>>

\* the operations of Ownable that hand the administration over
C32_OwnershipOps == {"transferOwnership", "renounceOwnership"}

\* C32: the configuration changes only through the admin operations, called
\* by the admin of that moment: registrationFee only by a successful
\* setRegistrationFee, the pause flag only by a successful pause or unpause,
\* the admin only by a successful transferOwnership or renounceOwnership (a
\* transaction that reverts leaves all three as they were when it started);
\* register, update, transfer, withdraw, deposits, the end of a value
\* transfer and the passing of time change neither of them nor the admin,
\* and the queries change nothing at all.
C32_ConfigOnlyByAdmin ==
    /\ registrationFee # pre.registrationFee
          => \/ /\ IsCall /\ made.op = "setRegistrationFee"
                /\ made.status = "ok" /\ made.caller = pre.owner
                /\ registrationFee = made.value
                /\ paused = pre.paused /\ owner = pre.owner
             \/ /\ TransferFails
                /\ registrationFee = saved[1].registrationFee
    /\ paused # pre.paused
          => \/ /\ IsCall /\ made.op \in {"pause", "unpause"}
                /\ made.status = "ok" /\ made.caller = pre.owner
                /\ paused = (made.op = "pause")
                /\ registrationFee = pre.registrationFee /\ owner = pre.owner
             \/ /\ TransferFails
                /\ paused = saved[1].paused
    /\ owner # pre.owner
          => \/ /\ IsCall /\ made.op \in C32_OwnershipOps
                /\ made.status = "ok" /\ made.caller = pre.owner
                /\ owner = made.addr
                /\ made.op = "renounceOwnership" <=> owner = Zero
                /\ registrationFee = pre.registrationFee
                /\ paused = pre.paused
             \/ /\ TransferFails
                /\ owner = saved[1].owner
    /\ (IsCall /\ made.op \in {"register", "update", "transfer",
                               "withdraw", "receive"})
          => C32_Config(Snapshot) = C32_Config(pre)
    /\ (TransferSucceeds \/ ~(IsCall \/ TransferFails))
          => C32_Config(Snapshot) = C32_Config(pre)
    /\ TransferFails => C32_Config(Snapshot) = C32_Config(saved[1])
    /\ (IsCall /\ made.op \in AdminOps \cup C32_OwnershipOps
           /\ made.status \in {"ok", "pending"})
          => made.caller = pre.owner /\ made.caller \in Accounts

\* the admin changed the fee and paused the registry, and another account
\* was refused both: fee and flag are what the admin set
C32_Witness ==
    /\ paused
    /\ \E i \in EventsOf("FeeUpdated") :
           /\ events[i].n1 # events[i].n2
           /\ events[i].n2 = registrationFee
    /\ \E i \in EventsOf("Paused") : events[i].a1 = owner
    /\ owner = Deployer
    /\ call.op = "unpause"
    /\ call.caller # owner
    /\ call.status = "fail"
    /\ call.err = "OwnableUnauthorizedAccount"

\* ---- C33 -----------------------------------------------------------------
\* the preconditions of register
C33_RegisterPreconditions(n, d, v) ==
    /\ Len(n) \in 1..MAX_NAME_LENGTH
    /\ Len(d) <= MAX_DATA_LENGTH
    /\ registry[n].owner = Zero
    /\ v >= registrationFee
    /\ ~paused

\* the preconditions of withdraw
C33_WithdrawPreconditions(c, to) == c = owner /\ to # Zero /\ balance > 0

\* the guard is held exactly while a value transfer is pending, and between
\* transactions every register and withdraw that meets its preconditions
\* passes its checks
C33_GuardReleased ==
    /\ status = (IF Pending THEN ENTERED ELSE NOT_ENTERED)
    /\ (TransferSucceeds \/ TransferFails) => status = NOT_ENTERED
    /\ Idle => \A n \in Names, d \in Datas, v \in Payments :
          C33_RegisterPreconditions(n, d, v) => RegisterError(n, d, v) = ""
    /\ Idle => \A c \in Accounts, to \in Addresses :
          C33_WithdrawPreconditions(c, to) => WithdrawError(c, to) = ""
    /\ (TopLevel /\ made.op \in {"register", "withdraw"})
          => made.err # "ReentrancyGuardReentrantCall"

\* C33 as stated: after any top-level register or withdraw finishes, however
\* it ended, the guard is not held, so the next top-level register or
\* withdraw that meets its preconditions succeeds.
C33_Original ==
    /\ C33_GuardReleased
    /\ ~(TransferFails /\ call.op \in {"register", "withdraw"})

\* C33 amended: after any top-level register or withdraw finishes, whether
\* it succeeded or failed at a check or at the value transfer, the guard is
\* not held, so the next top-level register or withdraw that meets its
\* preconditions is never rejected by the guard: it passes every check and
\* succeeds unless the recipient rejects the value it sends, in which case
\* it fails with "Refund failed" or "Withdrawal failed" and the guard is
\* released again.
C33_GuardAlwaysReleased ==
    /\ C33_GuardReleased
    /\ (TransferFails /\ call.op \in {"register", "withdraw"})
          => /\ call.err = (IF call.op = "register" THEN "Refund failed"
                            ELSE "Withdrawal failed")
             /\ call.sent > 0
             /\ status = NOT_ENTERED
    /\ (TopLevel /\ made.op \in {"register", "withdraw"} /\ Passes
           /\ made.status = "ok")
          => (made.sent = 0 \/ made.addr \notin Contracts)

\* after one registration succeeded, the refund of another was rejected: the
\* guard is free, and the same name can be registered by a call that follows
C33_Witness ==
    /\ call.op = "register"
    /\ call.status = "fail"
    /\ call.err = "Refund failed"
    /\ registered # {}
    /\ status = NOT_ENTERED
    /\ ~paused
    /\ registry[call.name].owner = Zero

\* ---- C34 -----------------------------------------------------------------
C34_PausableOps == {"register", "update", "transfer"}

\* C34: while the registry is paused, register, update and transfer fail
\* with EnforcedPause for every caller and input, whatever else is wrong
\* with the call (name or data length, caller not the owner, name already
\* registered, payment below the fee, a call made during a value transfer),
\* and change nothing; while it is not paused none of the three ever fails
\* with EnforcedPause.
C34_PauseErrorFirst ==
    /\ (IsCall /\ made.op \in C34_PausableOps /\ pre.paused)
          => /\ made.status = "fail"
             /\ made.err = "EnforcedPause"
             /\ Unchanged
    /\ (IsCall /\ made.op \in C34_PausableOps /\ ~pre.paused)
          => made.err # "EnforcedPause"
    /\ ~Returned => \A c \in Accounts, n \in Names, d \in Datas :
          /\ (UpdateError(c, n, d) = "EnforcedPause") <=> paused
          /\ \A v \in Payments :
                (RegisterError(n, d, v) = "EnforcedPause") <=> paused

\* while the registry is paused an account that does not own the registered
\* name tried to transfer it, and the error it got is the pause
C34_Witness ==
    /\ paused
    /\ call.op = "transfer"
    /\ call.status = "fail"
    /\ call.err = "EnforcedPause"
    /\ registry[call.name].owner \notin {Zero, call.caller}

\* ---- C35 -----------------------------------------------------------------
\* the places of all ownedNames lists: <<account, index>>
C35_Places == UNION {{<<a, i>> : i \in DOMAIN ownedNames[a]} : a \in Addresses}
\* how often the name occurs in the lists of all accounts together
C35_TotalOccurrences(n) ==
    Cardinality({p \in C35_Places : ownedNames[p[1]][p[2]] = n})
\* how many successful transfers of the name the log holds
C35_Transfers(n) ==
    Cardinality({i \in EventsOf("Transferred") : events[i].name = n})

\* C35: in every reachable state every registered name occurs in ownedNames
\* of its current owner, no unregistered name occurs in any ownedNames, and
\* a registered name occurs in the lists of all accounts together 1 + (the
\* number of successful transfers of it) times.
C35_HistoryCoversOwnership ==
    \A n \in Names :
        IF registry[n].owner # Zero
        THEN /\ n \in NamesIn(getOwnedNames(registry[n].owner))
             /\ C35_TotalOccurrences(n) = 1 + C35_Transfers(n)
        ELSE /\ \A a \in Addresses : n \notin NamesIn(getOwnedNames(a))
             /\ C35_TotalOccurrences(n) = 0
             /\ C35_Transfers(n) = 0

\* a registered name was transferred once: it occurs twice in all lists, in
\* the list of its owner among them, and a name never registered occurs in
\* none
C35_Witness ==
    \E n \in Names, m \in Names :
        /\ Idle
        /\ m # n
        /\ registry[n].owner # Zero
        /\ registry[m].owner = Zero
        /\ Len(m) \in 1..MAX_NAME_LENGTH
        /\ C35_Transfers(n) = 1
        /\ C35_TotalOccurrences(n) = 2
        /\ C35_TotalOccurrences(m) = 0
        /\ n \in NamesIn(getOwnedNames(registry[n].owner))
        /\ \E a \in Accounts \ {registry[n].owner} :
               n \in NamesIn(getOwnedNames(a))

\* ---- C36 -----------------------------------------------------------------
\* the names that have a record
C36_RegisteredNames == {n \in Names : registry[n].owner # Zero}

\* C36 as stated: for every name that has never been registered and every
\* caller, update and transfer fail with "Not the owner"; a record comes
\* into existence only through register; the number of registered names
\* equals the number of Registered events.
C36_Original ==
    /\ (IsCall /\ made.op \in {"update", "transfer"}
           /\ pre.registry[made.name].owner = Zero)
          => /\ made.status = "fail"
             /\ made.err = "Not the owner"
    /\ \A n \in Names :
          (pre.registry[n].owner = Zero /\ registry[n].owner # Zero)
             => (IsCall /\ made.op = "register" /\ made.name = n)
    /\ Cardinality(C36_RegisteredNames) = Cardinality(EventsOf("Registered"))

\* C36 amended: for every name that has never been registered and every
\* caller, update and transfer fail and change nothing, with "Not the owner"
\* while the registry is not paused (no caller equals the zero sentinel)
\* and with EnforcedPause while it is paused; so a record comes into
\* existence only through a register that passes its checks, a name without
\* an owner has the zero record, and the number of registered names always
\* equals the number of Registered events.
C36_UnregisteredNames ==
    /\ (IsCall /\ made.op \in {"update", "transfer"}
           /\ pre.registry[made.name].owner = Zero)
          => /\ made.caller # Zero
             /\ made.status = "fail"
             /\ made.err = (IF pre.paused THEN "EnforcedPause"
                            ELSE "Not the owner")
             /\ Unchanged
    /\ ~Returned => \A c \in Accounts, n \in Names \ C36_RegisteredNames,
                       x \in Addresses :
          TransferError(c, n, x) = (IF paused THEN "EnforcedPause"
                                    ELSE "Not the owner")
    /\ \A n \in Names :
          (pre.registry[n].owner = Zero /\ registry[n].owner # Zero)
             => /\ IsCall /\ made.op = "register" /\ Passes
                /\ made.name = n
                /\ registry[n].owner = made.caller
    /\ \A n \in Names \ C36_RegisteredNames :
          registry[n] = ZeroRecord /\ n \notin registered
    /\ Cardinality(C36_RegisteredNames) = Cardinality(EventsOf("Registered"))

\* with one name registered, an update of a name that never was registered
\* was refused with "Not the owner"; there is one Registered event
C36_Witness ==
    /\ call.op = "update"
    /\ call.status = "fail"
    /\ call.err = "Not the owner"
    /\ registry[call.name].owner = Zero
    /\ Len(call.name) \in 1..MAX_NAME_LENGTH
    /\ Cardinality(C36_RegisteredNames) = 1
    /\ Cardinality(EventsOf("Registered")) = 1

====
